---- MODULE Spec2Model ----
(***************************************************************************)
(* Model of the obsvty OTLP ingestion pipeline.                            *)
(*                                                                         *)
(*  Part I  (Spec):       the four thread-safe trace buffers of            *)
(*                        application/buffer_management.py, driven by      *)
(*                        concurrent client threads.                       *)
(*  Part II (SpecExport): OTLPgRPCAdapter.Export with the domain           *)
(*                        ObservabilityBuffer and the storage port;        *)
(*                        SpecExportFair adds a fair scheduler.            *)
(*  Part III:             constructors and pure functions applied to       *)
(*                        drawn inputs (SpecCtor, SpecId, SpecConv,        *)
(*                        SpecExtract, SpecNested).                        *)
(*  Part IV (SpecMem):    infrastructure MemoryBuffer.                     *)
(*  Part V  (SpecSvc):    infrastructure TraceService.Export.              *)
(*  Part VI (SpecDom):    the domain ObservabilityBuffer dataclass.        *)
(***************************************************************************)
EXTENDS Integers, Sequences, FiniteSets, TLC

\* ------------------------------------------------------------------ bounds
MaxN == 2
MaxAdds == 5
MaxCount == 3

\* --------------------------------------------------------------- constants
Threads == {"t1", "t2"}
NoThread == "none"
Variants == {"ObservabilityBuffer", "ObservabilityBufferWithConsume",
             "TraceBufferPortReadOnly", "RejectWhenFullBuffer"}
FifoVariants == {"ObservabilityBuffer", "ObservabilityBufferWithConsume",
                 "TraceBufferPortReadOnly"}
ReadOnlyGetVariants == {"ObservabilityBuffer", "TraceBufferPortReadOnly",
                        "RejectWhenFullBuffer"}
NoMaxLen == 0

VARIABLES
    variant,     \* which buffer class was constructed
    ctor_arg,    \* the max_size argument given to __init__
    max_size,    \* self._max_size
    buf,         \* self._buffer, a deque of spans (front = index 1)
    lock,        \* self._lock: the thread holding it, or NoThread
    thr,         \* per thread: position in the current call and its locals
    nextId,      \* identity of the next span handed to add_span (call order)
    nAdded,      \* identity of the last span appended to the deque
    clearMarks,  \* for every clear() so far, the value of nAdded at that clear
    lastGet,     \* the last completed get_spans since the last write, if any
    accepted,    \* number of add_span calls that have returned True
    left,        \* how often each span has left the deque, and the number
                 \* of spans popped by get_spans, evicted by add_span, cleared
    \* ---- Part II: OTLPgRPCAdapter
    obuf,        \* self._buffer: the domain ObservabilityBuffer dataclass
    rlock,       \* self._lock: threading.RLock, owner and hold count
    ex,          \* per gRPC worker thread: position in Export and its locals
    nExports,    \* number of adapter calls (Export, get_buffer_status) started
    \* ---- Part IV: MemoryBuffer
    mem,         \* the instance: _max_size, _spans, _logs, _metrics
    mlock,       \* self._lock: threading.RLock, owner and hold count
    mthr,        \* per thread: position in the current call and its locals
    \* ---- Part V: TraceService
    svc,         \* per gRPC worker thread: position in Export and its locals
    ingested,    \* the calls the ingestion port has received, in order
    nCalls,      \* number of TraceService.Export calls started
    \* ---- Part III: constructors and pure functions applied to drawn inputs
    pure         \* the input drawn, and the result once the function has run

bufVars == <<variant, ctor_arg, max_size, buf, lock, thr, nextId, nAdded,
             clearMarks, lastGet, accepted, left>>

expVars == <<obuf, rlock, ex, nExports>>

memVars == <<mem, mlock, mthr>>

svcVars == <<svc, ingested, nCalls>>

vars == <<bufVars, expVars, memVars, svcVars, pure>>

\* ----------------------------------------------------------------- helpers
Min(a, b) == IF a <= b THEN a ELSE b

Range(s) == {s[i] : i \in 1..Len(s)}

\* faulty variant: the spans are taken from the back of the list
Take_fromBack(s, n) == SubSeq(s, Len(s) - Min(n, Len(s)) + 1, Len(s))

\* result of the copy loop: the first min(n, len) elements
Take(s, n) == SubSeq(s, 1, Min(n, Len(s)))

\* faulty variant: every class builds an unbounded deque
DequeMaxLen_unbounded(v, n) == NoMaxLen

\* deque(maxlen=...): maxlen passed to the deque constructor by each class
DequeMaxLen(v, n) == IF v \in FifoVariants THEN n ELSE NoMaxLen

\* faulty variant: a full bounded deque discards from the right (the newest element)
DequeAppend_dropNewest(d, x, maxlen) ==
    IF maxlen # NoMaxLen /\ Len(d) >= maxlen
    THEN Append(SubSeq(d, 1, Len(d) - 1), x)
    ELSE Append(d, x)

\* deque.append on a bounded deque discards from the left when full
DequeAppend(d, x, maxlen) ==
    IF maxlen # NoMaxLen /\ Len(d) >= maxlen
    THEN Append(Tail(d), x)
    ELSE Append(d, x)

Idle == [pc |-> "idle", op |-> "none", arg |-> 0, retB |-> FALSE, retN |-> 0,
         retL |-> <<>>, pre |-> <<>>, n |-> 0, exc |-> FALSE]

NoGet == [valid |-> FALSE, count |-> 0, result |-> <<>>]

\* no span has left the deque yet
NeverLeft == [times |-> [id \in 1..MaxAdds |-> 0],
              popped |-> 0, evicted |-> 0, cleared |-> 0]

\* the spans of S have left the deque once more, in the way `how`
Leave(l, S, how) ==
    [l EXCEPT !.times = [id \in 1..MaxAdds |-> IF id \in S THEN @[id] + 1
                                                ELSE @[id]],
              ![how] = @ + Cardinality(S)]

\* the value of `pure` in the specifications that apply no pure function
PureParked == [pc |-> "parked"]

\* a thread outside any MemoryBuffer method
MemIdle == [pc |-> "idle", op |-> "none", n |-> 0, full |-> FALSE,
            ret |-> FALSE, pre |-> <<>>]

MemoryBuffer(n) == [max_size |-> n, spans |-> <<>>, logs |-> <<>>,
                    metrics |-> <<>>]

\* the state of a MemoryBuffer nobody uses
MemParked ==
    /\ mem = MemoryBuffer(1)
    /\ mlock = [owner |-> NoThread, count |-> 0]
    /\ mthr = [t \in Threads |-> MemIdle]

\* a worker outside TraceService.Export
SvcIdle == [pc |-> "idle", req |-> 1, request_bytes |-> <<>>, port |-> "none",
            exc |-> "none", code |-> "none", details |-> "none",
            resp |-> "none", call |-> 0]

\* the state of a TraceService nobody calls
SvcParked ==
    /\ svc = [t \in Threads |-> SvcIdle]
    /\ ingested = <<>>
    /\ nCalls = 0

\* faulty variant: the critical section is entered without waiting for the lock
Acquire_noWait(t) == lock' = t

\* `with self._lock:` entry and exit (threading.Lock, not re-entrant)
Acquire(t) == lock = NoThread /\ lock' = t

Release(t) == lock' = NoThread

\* -------------------------------------------------------------------- Init
BufInit ==
    /\ variant \in Variants
    /\ ctor_arg \in 1..MaxN
    /\ max_size = ctor_arg
    /\ buf = <<>>
    /\ lock = NoThread
    /\ thr = [t \in Threads |-> Idle]
    /\ nextId = 1
    /\ nAdded = 0
    /\ clearMarks = {}
    /\ lastGet = NoGet
    /\ accepted = 0
    /\ left = NeverLeft

\* ------------------------------------------------------------ call entries
\* A thread enters an operation: it takes the lock; `pre` records the deque
\* as it is when the critical section starts.
Enter(t, o, a) ==
    /\ thr[t].pc = "idle"
    /\ Acquire(t)
    /\ thr' = [thr EXCEPT ![t] = [Idle EXCEPT !.pc = "body", !.op = o,
                                              !.arg = a, !.pre = buf]]

add_span_call(t) ==
    /\ nextId <= MaxAdds
    /\ Enter(t, "add_span", nextId)
    /\ nextId' = nextId + 1
    /\ UNCHANGED <<expVars, memVars, svcVars, pure, accepted, left, variant, ctor_arg, max_size, buf, nAdded, clearMarks, lastGet>>

get_spans_call(t) ==
    /\ \E c \in 0..MaxCount : Enter(t, "get_spans", c)
    /\ UNCHANGED <<expVars, memVars, svcVars, pure, accepted, left, variant, ctor_arg, max_size, buf, nextId, nAdded, clearMarks,
                   lastGet>>

query_call(t) ==
    /\ \E o \in {"size", "is_full", "is_empty"} : Enter(t, o, 0)
    /\ UNCHANGED <<expVars, memVars, svcVars, pure, accepted, left, variant, ctor_arg, max_size, buf, nextId, nAdded, clearMarks,
                   lastGet>>

clear_call(t) ==
    /\ Enter(t, "clear", 0)
    /\ UNCHANGED <<expVars, memVars, svcVars, pure, accepted, left, variant, ctor_arg, max_size, buf, nextId, nAdded, clearMarks,
                   lastGet>>

\* ------------------------------------------------------------------ bodies
\* ObservabilityBuffer / WithConsume / ReadOnly .add_span: deque append, True
add_span_fifo(t) ==
    /\ thr[t].pc = "body" /\ thr[t].op = "add_span"
    /\ variant \in FifoVariants
    /\ buf' = DequeAppend(buf, thr[t].arg, DequeMaxLen(variant, max_size))
    /\ left' = Leave(left, Range(buf) \ Range(buf'), "evicted")
    /\ nAdded' = thr[t].arg
    /\ lastGet' = NoGet
    /\ thr' = [thr EXCEPT ![t].pc = "ret", ![t].retB = TRUE]
    /\ UNCHANGED <<expVars, memVars, svcVars, pure, accepted, variant, ctor_arg, max_size, lock, nextId, clearMarks>>

\* faulty variant: the capacity test is off by one
RejectIsFull_offByOne(d, n) == Len(d) > n

\* RejectWhenFullBuffer.add_span: the capacity test
RejectIsFull(d, n) == Len(d) >= n

add_span_reject_check(t) ==
    /\ thr[t].pc = "body" /\ thr[t].op = "add_span"
    /\ variant = "RejectWhenFullBuffer"
    /\ IF RejectIsFull(buf, max_size)
       THEN thr' = [thr EXCEPT ![t].pc = "ret", ![t].retB = FALSE]
       ELSE thr' = [thr EXCEPT ![t].pc = "append"]
    /\ UNCHANGED <<expVars, memVars, svcVars, pure, accepted, left, variant, ctor_arg, max_size, buf, lock, nextId, nAdded,
                   clearMarks, lastGet>>

\* RejectWhenFullBuffer.add_span: the append of the else branch
add_span_reject_append(t) ==
    /\ thr[t].pc = "append"
    /\ buf' = DequeAppend(buf, thr[t].arg, DequeMaxLen(variant, max_size))
    /\ left' = Leave(left, Range(buf) \ Range(buf'), "evicted")
    /\ nAdded' = thr[t].arg
    /\ lastGet' = NoGet
    /\ thr' = [thr EXCEPT ![t].pc = "ret", ![t].retB = TRUE]
    /\ UNCHANGED <<expVars, memVars, svcVars, pure, accepted, variant, ctor_arg, max_size, lock, nextId, clearMarks>>

\* get_spans of the three non-consuming classes: copy, then take the front
ReadOnlyGet(d, count) == Take(d, count)

\* faulty variant: the non-consuming get_spans removes what it returns
get_spans_readonly_consuming(t) ==
    /\ thr[t].pc = "body" /\ thr[t].op = "get_spans"
    /\ variant \in ReadOnlyGetVariants
    /\ thr' = [thr EXCEPT ![t].pc = "ret",
                          ![t].retL = ReadOnlyGet(buf, thr[t].arg)]
    /\ buf' = SubSeq(buf, Min(thr[t].arg, Len(buf)) + 1, Len(buf))
    /\ UNCHANGED <<expVars, memVars, svcVars, pure, accepted, left, variant, ctor_arg, max_size, lock, nextId, nAdded,
                   clearMarks, lastGet>>

get_spans_readonly(t) ==
    /\ thr[t].pc = "body" /\ thr[t].op = "get_spans"
    /\ variant \in ReadOnlyGetVariants
    /\ thr' = [thr EXCEPT ![t].pc = "ret",
                          ![t].retL = ReadOnlyGet(buf, thr[t].arg)]
    /\ UNCHANGED <<expVars, memVars, svcVars, pure, accepted, left, variant, ctor_arg, max_size, buf, lock, nextId, nAdded,
                   clearMarks, lastGet>>

\* faulty variant: the loop runs `count` times whatever the deque holds
ConsumeIterations_noMin(d, count) == count

\* ObservabilityBufferWithConsume.get_spans: range(min(count, len)) is
\* evaluated once, then one popleft per iteration
ConsumeIterations(d, count) == Min(count, Len(d))

get_spans_consume_range(t) ==
    /\ thr[t].pc = "body" /\ thr[t].op = "get_spans"
    /\ variant = "ObservabilityBufferWithConsume"
    /\ thr' = [thr EXCEPT ![t].pc = "pop",
                          ![t].n = ConsumeIterations(buf, thr[t].arg)]
    /\ UNCHANGED <<expVars, memVars, svcVars, pure, accepted, left, variant, ctor_arg, max_size, buf, lock, nextId, nAdded,
                   clearMarks, lastGet>>

\* faulty variant: the front span is returned and stays in the deque
get_spans_consume_pop_peeks(t) ==
    /\ thr[t].pc = "pop"
    /\ thr[t].n > 0
    /\ buf # <<>>
    /\ left' = Leave(left, {Head(buf)}, "popped")
    /\ thr' = [thr EXCEPT ![t].n = @ - 1,
                          ![t].retL = Append(@, Head(buf))]
    /\ UNCHANGED <<expVars, memVars, svcVars, pure, accepted, variant, ctor_arg,
                   max_size, buf, lock, nextId, nAdded, clearMarks, lastGet>>

get_spans_consume_pop(t) ==
    /\ thr[t].pc = "pop"
    /\ thr[t].n > 0
    /\ IF buf = <<>>
       THEN \* popleft on an empty deque raises IndexError
            /\ thr' = [thr EXCEPT ![t].pc = "ret", ![t].exc = TRUE,
                                  ![t].retL = <<>>]
            /\ UNCHANGED <<buf, lastGet, left>>
       ELSE /\ buf' = Tail(buf)
            /\ left' = Leave(left, {Head(buf)}, "popped")
            /\ lastGet' = NoGet
            /\ thr' = [thr EXCEPT ![t].n = @ - 1,
                                  ![t].retL = Append(@, Head(buf))]
    /\ UNCHANGED <<expVars, memVars, svcVars, pure, accepted, variant, ctor_arg, max_size, lock, nextId, nAdded, clearMarks>>

get_spans_consume_done(t) ==
    /\ thr[t].pc = "pop"
    /\ thr[t].n = 0
    /\ thr' = [thr EXCEPT ![t].pc = "ret"]
    /\ UNCHANGED <<expVars, memVars, svcVars, pure, accepted, left, variant, ctor_arg, max_size, buf, lock, nextId, nAdded,
                   clearMarks, lastGet>>

\* size(), is_full(), is_empty()
size(d) == Len(d)

is_full(d, n) == Len(d) >= n

is_empty(d) == Len(d) = 0

query_body(t) ==
    /\ thr[t].pc = "body" /\ thr[t].op \in {"size", "is_full", "is_empty"}
    /\ thr' = [thr EXCEPT ![t].pc = "ret",
                 ![t].retN = IF thr[t].op = "size" THEN size(buf) ELSE 0,
                 ![t].retB = IF thr[t].op = "is_full" THEN is_full(buf, max_size)
                             ELSE IF thr[t].op = "is_empty" THEN is_empty(buf)
                             ELSE FALSE]
    /\ UNCHANGED <<expVars, memVars, svcVars, pure, accepted, left, variant, ctor_arg, max_size, buf, lock, nextId, nAdded,
                   clearMarks, lastGet>>

\* clear(): deque.clear()
clear_body(t) ==
    /\ thr[t].pc = "body" /\ thr[t].op = "clear"
    /\ buf' = <<>>
    /\ left' = Leave(left, Range(buf), "cleared")
    /\ clearMarks' = clearMarks \cup {nAdded}
    /\ lastGet' = NoGet
    /\ thr' = [thr EXCEPT ![t].pc = "ret"]
    /\ UNCHANGED <<expVars, memVars, svcVars, pure, accepted, variant, ctor_arg, max_size, lock, nextId, nAdded>>

\* ------------------------------------------------------------------ return
\* leaving the `with` block releases the lock and hands the result back
Return(t) ==
    /\ thr[t].pc = "ret"
    /\ Release(t)
    /\ thr' = [thr EXCEPT ![t] = Idle]
    /\ lastGet' = IF thr[t].op = "get_spans" /\ ~thr[t].exc
                  THEN [valid |-> TRUE, count |-> thr[t].arg,
                        result |-> thr[t].retL]
                  ELSE lastGet
    /\ accepted' = IF thr[t].op = "add_span" /\ thr[t].retB
                   THEN accepted + 1 ELSE accepted
    /\ UNCHANGED <<expVars, memVars, svcVars, pure, left, variant, ctor_arg, max_size, buf, nextId, nAdded,
                   clearMarks>>

\* ======================================================================
\* Part II: OTLPgRPCAdapter.Export
\* ======================================================================
MaxExports == 2

HexDigits == <<"0", "1", "2", "3", "4", "5", "6", "7",
               "8", "9", "a", "b", "c", "d", "e", "f">>

HexChars == {"0", "1", "2", "3", "4", "5", "6", "7", "8", "9",
             "a", "b", "c", "d", "e", "f", "A", "B", "C", "D", "E", "F"}

\* bytes.hex(): two lowercase hex digits per byte
RECURSIVE Hex(_)
Hex(bs) ==
    IF bs = <<>> THEN <<>>
    ELSE <<HexDigits[(Head(bs) \div 16) + 1], HexDigits[(Head(bs) % 16) + 1]>>
         \o Hex(Tail(bs))

\* re.match(r"^[0-9a-fA-F]{n}$", value): n hex characters from the start,
\* then the end of the string; `$` also matches just before a newline that
\* ends the string
MatchHexExact(value, n) ==
    /\ Len(value) >= n
    /\ \A i \in 1..n : value[i] \in HexChars
    /\ \/ Len(value) = n
       \/ Len(value) = n + 1 /\ value[n + 1] = "\n"

TraceIdLen == 32

SpanIdLen == 16

\* TraceId.__post_init__: a non-empty string that matches the pattern
TraceIdOk(value) ==
    /\ Len(value) # 0
    /\ MatchHexExact(value, TraceIdLen)

\* SpanId.__post_init__: a non-empty string that matches the pattern
SpanIdOk(value) ==
    /\ Len(value) # 0
    /\ MatchHexExact(value, SpanIdLen)

\* SpanEvent.__post_init__
SpanEventOk(name) == name # ""

\* SpanStatus.__post_init__
SpanStatusOk(code) == code \in {0, 1, 2}

\* faulty variant: the order of the two times is not checked
TraceSpanOk_noTimeOrder(name, start, end, kind) ==
    /\ name # ""
    /\ ~(start < 0)
    /\ kind \in 0..4

\* TraceSpan.__post_init__
TraceSpanOk(name, start, end, kind) ==
    /\ name # ""
    /\ ~(start < 0)
    /\ ~(end < start)
    /\ kind \in 0..4

NoSpan == [name |-> ""]

Raised(kind) == [ok |-> FALSE, exc |-> kind, span |-> NoSpan]

\* OTLPgRPCAdapter._create_trace_span_from_otlp: the value objects are built
\* in the order of the code, and the first constructor that fails raises
CreateTraceSpanFromOtlp(w) ==
    LET tid == Hex(w.trace_id)
        sid == Hex(w.span_id)
        pid == Hex(w.parent_span_id)
    IN  IF ~TraceIdOk(tid) THEN Raised("ValueError")
        ELSE IF ~SpanIdOk(sid) THEN Raised("ValueError")
        ELSE IF w.parent_span_id # <<>> /\ ~SpanIdOk(pid) THEN Raised("ValueError")
        ELSE IF \E j \in 1..Len(w.events) : ~SpanEventOk(w.events[j])
             THEN Raised("ValueError")
        ELSE IF ~SpanStatusOk(w.status_code) THEN Raised("ValueError")
        ELSE IF ~TraceSpanOk(w.name, w.start_time_unix_nano,
                             w.end_time_unix_nano, w.kind)
             THEN Raised("ValueError")
        ELSE [ok |-> TRUE, exc |-> "none",
              span |-> [trace_id |-> tid, span_id |-> sid,
                        parent_span_id |-> IF w.parent_span_id # <<>>
                                           THEN pid ELSE <<>>,
                        name |-> w.name,
                        start_time_unix_nano |-> w.start_time_unix_nano,
                        end_time_unix_nano |-> w.end_time_unix_nano,
                        events |-> w.events,
                        status |-> w.status_code,
                        kind |-> w.kind]]

\* ---- wire data the clients send
IdBytes(n, last) == [i \in 1..n |-> IF i = n THEN last ELSE 0]

WireSpan(sid, nm) ==
    [trace_id |-> IdBytes(16, 0), span_id |-> IdBytes(8, sid),
     parent_span_id |-> <<>>, name |-> nm, kind |-> 1,
     start_time_unix_nano |-> 1, end_time_unix_nano |-> 2,
     events |-> <<>>, status_code |-> 0]

Good1 == WireSpan(1, "s1")
Good2 == [WireSpan(2, "s2") EXCEPT !.parent_span_id = IdBytes(8, 1), !.kind = 2]
Good3 == WireSpan(3, "s3")
BadTraceId == [WireSpan(4, "s4") EXCEPT !.trace_id = IdBytes(15, 0)]
BadName == WireSpan(5, "")
BadTime == [WireSpan(6, "s6") EXCEPT !.end_time_unix_nano = 0]
BadKind == [WireSpan(7, "s7") EXCEPT !.kind = 6]

Scope(spans) == [spans |-> spans]
Resource(scopes) == [scope_spans |-> scopes]
Request(resources) == [resource_spans |-> resources]

\* the requests the clients may send
Requests ==
    <<Request(<<>>),
      Request(<<Resource(<<Scope(<<Good1>>)>>)>>),
      Request(<<Resource(<<Scope(<<Good2>>)>>)>>),
      Request(<<Resource(<<Scope(<<Good1, Good2>>)>>)>>),
      Request(<<Resource(<<Scope(<<Good1>>), Scope(<<>>), Scope(<<Good2>>)>>),
                Resource(<<>>),
                Resource(<<Scope(<<Good3>>)>>)>>),
      Request(<<Resource(<<Scope(<<BadTraceId, Good3>>)>>)>>),
      Request(<<Resource(<<Scope(<<Good1, BadName>>), Scope(<<Good3>>)>>)>>),
      Request(<<Resource(<<Scope(<<BadTime>>)>>),
                Resource(<<Scope(<<Good2>>)>>)>>),
      Request(<<Resource(<<Scope(<<BadKind, Good1>>)>>)>>)>>

\* the three nested `for` loops of Export visit the spans depth-first
RECURSIVE SpansOfScopes(_)
SpansOfScopes(scopes) ==
    IF scopes = <<>> THEN <<>>
    ELSE Head(scopes).spans \o SpansOfScopes(Tail(scopes))

RECURSIVE SpansOfResources(_)
SpansOfResources(rs) ==
    IF rs = <<>> THEN <<>>
    ELSE SpansOfScopes(Head(rs).scope_spans) \o SpansOfResources(Tail(rs))

\* faulty variant: the spans are visited from the last to the first
WalkOrder_backwards(req) ==
    LET w == SpansOfResources(req.resource_spans)
    IN  [i \in 1..Len(w) |-> w[Len(w) + 1 - i]]

WalkOrder(req) == SpansOfResources(req.resource_spans)

\* request.SerializeToString(): every level is written in order, each
\* resource and scope with its tag, each span by its fields
RECURSIVE SerializeSpans(_)
SerializeSpans(spans) ==
    IF spans = <<>> THEN <<>>
    ELSE <<"s">> \o Hex(Head(spans).span_id) \o SerializeSpans(Tail(spans))

RECURSIVE SerializeScopes(_)
SerializeScopes(scopes) ==
    IF scopes = <<>> THEN <<>>
    ELSE <<"S">> \o SerializeSpans(Head(scopes).spans)
         \o SerializeScopes(Tail(scopes))

RECURSIVE SerializeResources(_)
SerializeResources(rs) ==
    IF rs = <<>> THEN <<>>
    ELSE <<"R">> \o SerializeScopes(Head(rs).scope_spans)
         \o SerializeResources(Tail(rs))

SerializeToString(req) == SerializeResources(req.resource_spans)

\* faulty variant: only the span at hand is serialized
TraceBytes_spanOnly(req, i) ==
    SerializeToString(Request(<<Resource(<<Scope(<<WalkOrder(req)[i]>>)>>)>>))

\* trace_bytes = request.SerializeToString(), computed for each span
TraceBytes(req, i) == SerializeToString(req)

\* ---- the domain ObservabilityBuffer dataclass (not thread-safe by itself)
DomainBuffer(n) == [max_size |-> n, current_size |-> 0, buffer |-> <<>>]

\* faulty variant: the span is appended and the counter is left as it was
DomainAddSpan_forgetsCount(b, span) ==
    IF b.current_size >= b.max_size
    THEN [ok |-> FALSE, b |-> b]
    ELSE [ok |-> TRUE, b |-> [b EXCEPT !.buffer = Append(@, span)]]

DomainAddSpan(b, span) ==
    IF b.current_size >= b.max_size
    THEN [ok |-> FALSE, b |-> b]
    ELSE [ok |-> TRUE,
          b |-> [b EXCEPT !.buffer = Append(@, span),
                          !.current_size = @ + 1]]

DomainIsFull(b) == b.current_size >= b.max_size

DomainIsEmpty(b) == b.current_size = 0

\* faulty variant: clear() empties the list and forgets the counter
DomainClear_keepsCount(b) == [b EXCEPT !.buffer = <<>>]

DomainClear(b) == [b EXCEPT !.buffer = <<>>, !.current_size = 0]

\* ---- threading.RLock
NoLock == [owner |-> NoThread, count |-> 0]

\* faulty variant: the lock never makes a thread wait
RLockFree_noWait(t) == TRUE

RLockFree(t) == rlock.owner \in {NoThread, t}

RLockAcquired(t) == [owner |-> t, count |-> rlock.count + 1]

RLockReleased(t) ==
    IF rlock.count = 1 THEN NoLock ELSE [rlock EXCEPT !.count = @ - 1]

\* faulty variant: the handler catches ValueError only
Catches_onlyValueError(kind) == kind = "ValueError"

\* `except Exception`: ValueError and the storage port's errors derive from it
Catches(kind) == kind \in {"Exception", "ValueError"}

\* no get_buffer_status result yet
NoStatus == [current_size |-> 0, max_size |-> 0, is_full |-> FALSE,
             is_empty |-> FALSE]

\* `call` is the number of the Export call. `alone` tells, for the claims,
\* that no other Export has been running since the call started, and as long
\* as it holds `obuf0` is the buffer as the call found it. In
\* get_buffer_status `obuf0` is the buffer when the lock was taken.
ExIdle == [pc |-> "idle", req |-> 1, i |-> 0, span |-> NoSpan,
           overflow |-> FALSE, exc |-> "none", resp |-> "none",
           trace |-> <<>>, status |-> NoStatus,
           call |-> 0, obuf0 |-> DomainBuffer(0), alone |-> FALSE]

\* the pcs of a thread that is not between the first and the last
\* statement of Export
StatusPcs == {"status", "status_full", "status_empty", "status_done"}

OutsideExport == {"idle", "done"} \cup StatusPcs

\* the span as it sits in the buffer, with the call and the position in the
\* request it came from
Tagged(span, c, i) == ("origin" :> [call |-> c, i |-> i]) @@ span

Event(e, i, ok, payload) == [ev |-> e, i |-> i, ok |-> ok, payload |-> payload]

ExportInit ==
    /\ \E n \in 1..MaxN : obuf = DomainBuffer(n)
    /\ rlock = NoLock
    /\ ex = [t \in Threads |-> ExIdle]
    /\ nExports = 0

ExportParked ==
    /\ obuf = DomainBuffer(1)
    /\ rlock = NoLock
    /\ ex = [t \in Threads |-> ExIdle]
    /\ nExports = 0

BufParked ==
    /\ variant = "RejectWhenFullBuffer"
    /\ ctor_arg = 1
    /\ max_size = 1
    /\ buf = <<>>
    /\ lock = NoThread
    /\ thr = [t \in Threads |-> Idle]
    /\ nextId = 1
    /\ nAdded = 0
    /\ clearMarks = {}
    /\ lastGet = NoGet
    /\ accepted = 0
    /\ left = NeverLeft

\* Export is entered with a request
Export_call(t) ==
    /\ ex[t].pc = "idle"
    /\ nExports < MaxExports
    /\ \E k \in 1..Len(Requests) :
           ex' = [u \in Threads |->
                    IF u = t
                    THEN IF \A v \in Threads \ {t} : ex[v].pc \in OutsideExport
                         THEN [ExIdle EXCEPT
                                 !.pc = "loop", !.req = k, !.i = 1,
                                 !.call = nExports + 1, !.obuf0 = obuf,
                                 !.alone = TRUE]
                         ELSE [ExIdle EXCEPT
                                 !.pc = "loop", !.req = k, !.i = 1,
                                 !.call = nExports + 1]
                    ELSE IF ex[u].alone
                         THEN [ex[u] EXCEPT !.alone = FALSE,
                                            !.obuf0 = ExIdle.obuf0]
                         ELSE ex[u]]
    /\ nExports' = nExports + 1
    /\ UNCHANGED <<bufVars, memVars, svcVars, pure, obuf, rlock>>

\* faulty variant: the storage port is called once more after the loops
Export_success_storesAfterLoops(t) ==
    /\ ex[t].pc = "loop"
    /\ ex[t].i > Len(WalkOrder(Requests[ex[t].req]))
    /\ ex' = [ex EXCEPT ![t].pc = "done",
                        ![t].resp = "ExportTraceServiceResponse",
                        ![t].trace = Append(@, Event("store", ex[t].i, TRUE,
                                         TraceBytes(Requests[ex[t].req], ex[t].i)))]
    /\ UNCHANGED <<bufVars, memVars, svcVars, pure, obuf, rlock, nExports>>

\* the loops are exhausted: the success response is built and returned
Export_success(t) ==
    /\ ex[t].pc = "loop"
    /\ ex[t].i > Len(WalkOrder(Requests[ex[t].req]))
    /\ ex' = [ex EXCEPT ![t].pc = "done",
                        ![t].resp = "ExportTraceServiceResponse"]
    /\ UNCHANGED <<bufVars, memVars, svcVars, pure, obuf, rlock, nExports>>

\* next span: `with self._lock:`
Export_lock(t) ==
    /\ ex[t].pc = "loop"
    /\ ex[t].i <= Len(WalkOrder(Requests[ex[t].req]))
    /\ RLockFree(t)
    /\ rlock' = RLockAcquired(t)
    /\ ex' = [ex EXCEPT ![t].pc = "convert"]
    /\ UNCHANGED <<bufVars, memVars, svcVars, pure, obuf, nExports>>

\* what _create_trace_span_from_otlp makes of span i of request k
Converted ==
    [k \in 1..Len(Requests) |->
        [i \in 1..Len(WalkOrder(Requests[k])) |->
            CreateTraceSpanFromOtlp(WalkOrder(Requests[k])[i])]]

\* faulty variant: an exception in the conversion leaves the lock held
Export_convert_keepsLock(t) ==
    /\ ex[t].pc = "convert"
    /\ LET r == Converted[ex[t].req][ex[t].i]
       IN  IF r.ok
           THEN ex' = [ex EXCEPT ![t].pc = "add",
                                 ![t].span = Tagged(r.span, ex[t].call, ex[t].i)]
           ELSE ex' = [ex EXCEPT ![t].pc = "except", ![t].exc = r.exc]
    /\ UNCHANGED <<bufVars, memVars, svcVars, pure, obuf, rlock, nExports>>

\* trace_span = self._create_trace_span_from_otlp(span); an exception leaves
\* the `with` block (releasing the lock) and reaches the handler
Export_convert(t) ==
    /\ ex[t].pc = "convert"
    /\ LET r == Converted[ex[t].req][ex[t].i]
       IN  IF r.ok
           THEN /\ ex' = [ex EXCEPT ![t].pc = "add",
                                    ![t].span = Tagged(r.span, ex[t].call,
                                                       ex[t].i)]
                /\ UNCHANGED rlock
           ELSE /\ ex' = [ex EXCEPT ![t].pc = "except", ![t].exc = r.exc]
                /\ rlock' = RLockReleased(t)
    /\ UNCHANGED <<bufVars, memVars, svcVars, pure, obuf, nExports>>

\* if not self._buffer.add_span(trace_span)
Export_add(t) ==
    /\ ex[t].pc = "add"
    /\ LET r == DomainAddSpan(obuf, ex[t].span)
       IN  /\ obuf' = r.b
           /\ ex' = [ex EXCEPT
                  ![t].pc = IF r.ok THEN "unlock" ELSE "drain",
                  ![t].overflow = ~r.ok,
                  ![t].trace = Append(@, Event("add", ex[t].i, r.ok, <<>>))]
    /\ UNCHANGED <<bufVars, memVars, svcVars, pure, rlock, nExports>>

\* self._process_buffer_contents(): takes the re-entrant lock again, clears
Export_drain(t) ==
    /\ ex[t].pc = "drain"
    /\ RLockFree(t)
    /\ obuf' = DomainClear(obuf)
    /\ ex' = [ex EXCEPT ![t].pc = "retry",
                        ![t].trace = Append(@, Event("drain", ex[t].i, TRUE, <<>>))]
    /\ UNCHANGED <<bufVars, memVars, svcVars, pure, rlock, nExports>>

\* self._buffer.add_span(trace_span), the result is not looked at
Export_retry(t) ==
    /\ ex[t].pc = "retry"
    /\ LET r == DomainAddSpan(obuf, ex[t].span)
       IN  /\ obuf' = r.b
           /\ ex' = [ex EXCEPT
                  ![t].pc = "unlock",
                  ![t].trace = Append(@, Event("retry", ex[t].i, r.ok, <<>>))]
    /\ UNCHANGED <<bufVars, memVars, svcVars, pure, rlock, nExports>>

\* end of the `with` block
Export_unlock(t) ==
    /\ ex[t].pc = "unlock"
    /\ rlock' = RLockReleased(t)
    /\ ex' = [ex EXCEPT ![t].pc = "store"]
    /\ UNCHANGED <<bufVars, memVars, svcVars, pure, obuf, nExports>>

\* self._process_trace_use_case.run(trace_bytes) -> storage.store_trace; the
\* storage port is external and may raise
Export_store(t) ==
    /\ ex[t].pc = "store"
    /\ \E fails \in BOOLEAN :
         IF fails
         THEN ex' = [ex EXCEPT ![t].pc = "except", ![t].exc = "Exception"]
         ELSE ex' = [ex EXCEPT
                  ![t].pc = "loop",
                  ![t].i = @ + 1,
                  ![t].overflow = FALSE,
                  ![t].trace = Append(@, Event("store", ex[t].i, TRUE,
                                   TraceBytes(Requests[ex[t].req], ex[t].i)))]
    /\ UNCHANGED <<bufVars, memVars, svcVars, pure, obuf, rlock, nExports>>

\* faulty variant: the handler empties the buffer before it returns
Export_except_rollsBack(t) ==
    /\ ex[t].pc = "except"
    /\ obuf' = DomainClear(obuf)
    /\ ex' = [ex EXCEPT ![t].pc = "done",
                        ![t].resp = "ExportTraceServiceResponse"]
    /\ UNCHANGED <<bufVars, memVars, svcVars, pure, rlock, nExports>>

\* except Exception as e: log, build the response, return it; an exception
\* the clause does not catch leaves Export
Export_except(t) ==
    /\ ex[t].pc = "except"
    /\ ex' = [ex EXCEPT ![t].pc = "done",
                        ![t].resp = IF Catches(ex[t].exc)
                                    THEN "ExportTraceServiceResponse"
                                    ELSE "raised"]
    /\ UNCHANGED <<bufVars, memVars, svcVars, pure, obuf, rlock, nExports>>

\* the worker thread is handed back to the pool
Export_return(t) ==
    /\ ex[t].pc = "done"
    /\ ex' = [ex EXCEPT ![t] = ExIdle]
    /\ UNCHANGED <<bufVars, memVars, svcVars, pure, obuf, rlock, nExports>>

\* get_buffer_status: `with self._lock:`
Status_call(t) ==
    /\ ex[t].pc = "idle"
    /\ nExports < MaxExports
    /\ RLockFree(t)
    /\ rlock' = RLockAcquired(t)
    /\ ex' = [ex EXCEPT ![t] = [ExIdle EXCEPT !.pc = "status", !.obuf0 = obuf]]
    /\ nExports' = nExports + 1
    /\ UNCHANGED <<bufVars, memVars, svcVars, pure, obuf>>

\* "current_size": self._buffer.current_size, "max_size": self._buffer.max_size
Status_fields(t) ==
    /\ ex[t].pc = "status"
    /\ ex' = [ex EXCEPT ![t].pc = "status_full",
                        ![t].status.current_size = obuf.current_size,
                        ![t].status.max_size = obuf.max_size]
    /\ UNCHANGED <<bufVars, memVars, svcVars, pure, obuf, rlock, nExports>>

\* "is_full": self._buffer.is_full()
Status_is_full(t) ==
    /\ ex[t].pc = "status_full"
    /\ ex' = [ex EXCEPT ![t].pc = "status_empty",
                        ![t].status.is_full = DomainIsFull(obuf)]
    /\ UNCHANGED <<bufVars, memVars, svcVars, pure, obuf, rlock, nExports>>

\* "is_empty": self._buffer.is_empty(); the dict is built and the `with`
\* block is left
Status_is_empty(t) ==
    /\ ex[t].pc = "status_empty"
    /\ ex' = [ex EXCEPT ![t].pc = "status_done",
                        ![t].status.is_empty = DomainIsEmpty(obuf)]
    /\ rlock' = RLockReleased(t)
    /\ UNCHANGED <<bufVars, memVars, svcVars, pure, obuf, nExports>>

\* the caller has the dict
Status_return(t) ==
    /\ ex[t].pc = "status_done"
    /\ ex' = [ex EXCEPT ![t] = ExIdle]
    /\ UNCHANGED <<bufVars, memVars, svcVars, pure, obuf, rlock, nExports>>

NextExport ==
    \E t \in Threads :
        \/ Status_call(t)
        \/ Status_fields(t)
        \/ Status_is_full(t)
        \/ Status_is_empty(t)
        \/ Status_return(t)
        \/ Export_call(t)
        \/ Export_success(t)
        \/ Export_lock(t)
        \/ Export_convert(t)
        \/ Export_add(t)
        \/ Export_drain(t)
        \/ Export_retry(t)
        \/ Export_unlock(t)
        \/ Export_store(t)
        \/ Export_except(t)
        \/ Export_return(t)

InitExport ==
    BufParked /\ ExportInit /\ MemParked /\ SvcParked /\ pure = PureParked

SpecExport == InitExport /\ [][NextExport]_vars

\* a step of thread t inside a call it has started
Running(t) ==
    \/ Status_fields(t)
    \/ Status_is_full(t)
    \/ Status_is_empty(t)
    \/ Status_return(t)
    \/ Export_success(t)
    \/ Export_lock(t)
    \/ Export_convert(t)
    \/ Export_add(t)
    \/ Export_drain(t)
    \/ Export_retry(t)
    \/ Export_unlock(t)
    \/ Export_store(t)
    \/ Export_except(t)
    \/ Export_return(t)

\* the same adapter under a fair scheduler: a thread that can go on inside
\* its call is not held back for ever
SpecExportFair == SpecExport /\ \A t \in Threads : WF_vars(Running(t))

\* ======================================================================
\* Specifications
\* ======================================================================
Next ==
    \E t \in Threads :
        \/ add_span_call(t)
        \/ get_spans_call(t)
        \/ query_call(t)
        \/ clear_call(t)
        \/ add_span_fifo(t)
        \/ add_span_reject_check(t)
        \/ add_span_reject_append(t)
        \/ get_spans_readonly(t)
        \/ get_spans_consume_range(t)
        \/ get_spans_consume_pop(t)
        \/ get_spans_consume_done(t)
        \/ query_body(t)
        \/ clear_body(t)
        \/ Return(t)

Init ==
    BufInit /\ ExportParked /\ MemParked /\ SvcParked /\ pure = PureParked

Spec == Init /\ [][Next]_vars

\* ======================================================================
\* Claims about the buffers (checked under Spec)
\* ======================================================================
AtRet(t, o) == thr[t].pc = "ret" /\ thr[t].op = o

IsPrefix(p, s) == Len(p) <= Len(s) /\ SubSeq(s, 1, Len(p)) = p

SetMax(S) == CHOOSE m \in S : \A x \in S : x <= m

\* identity of the last span appended before the most recent clear (0: none)
LastClear == SetMax(clearMarks \cup {0})

\* C1: in every variant built with max_size = N >= 1, whatever the threads do,
\* the buffer holds between 0 and N spans, every value size() returns is in
\* 0..N, and max_size is still N.
C1_SizeWithinCapacity ==
    /\ max_size = ctor_arg
    /\ ctor_arg >= 1
    /\ Len(buf) \in 0..ctor_arg
    /\ \A t \in Threads : AtRet(t, "size") => thr[t].retN \in 0..ctor_arg

C1_Witness ==
    /\ Len(buf) = max_size
    /\ nAdded > max_size
    /\ clearMarks # {}
    /\ \E t \in Threads : AtRet(t, "size") /\ thr[t].retN = max_size

\* C2: RejectWhenFullBuffer: the first N add_span calls return True; an
\* add_span made while the buffer holds N spans returns False and leaves the
\* deque exactly as it was; an add_span made below capacity appends and
\* returns True.
C2_RejectWhenFull ==
    \A t \in Threads :
        (variant = "RejectWhenFullBuffer" /\ AtRet(t, "add_span")) =>
            /\ thr[t].arg <= max_size => thr[t].retB
            /\ Len(thr[t].pre) = max_size => (~thr[t].retB /\ buf = thr[t].pre)
            /\ Len(thr[t].pre) < max_size =>
                   (thr[t].retB /\ buf = Append(thr[t].pre, thr[t].arg))

C2_Witness ==
    \E t \in Threads :
        /\ variant = "RejectWhenFullBuffer" /\ AtRet(t, "add_span")
        /\ thr[t].arg = max_size + 1
        /\ Len(thr[t].pre) = max_size
        /\ ~thr[t].retB
        /\ clearMarks = {}

\* C3: ObservabilityBuffer (evict-oldest): every add_span returns True, and
\* after N + k adds (k >= 1) since construction or the last clear the deque
\* holds exactly the adds k+1 .. N+k of that run, oldest first.
C3_EvictOldest ==
    variant = "ObservabilityBuffer" =>
        /\ \A t \in Threads : AtRet(t, "add_span") => thr[t].retB
        /\ LET k == nAdded - LastClear - max_size
           IN  k >= 1 => buf = [i \in 1..max_size |-> LastClear + k + i]

C3_Witness ==
    /\ variant = "ObservabilityBuffer"
    /\ max_size = MaxN
    /\ nAdded - LastClear - max_size >= 2
    /\ \E t \in Threads : AtRet(t, "add_span")

\* C4: ObservabilityBufferWithConsume: get_spans(c) on a buffer of s spans
\* removes the min(c, s) spans it returns, so the size right after the call
\* is s - min(c, s).
C4_ConsumeReducesSize ==
    \A t \in Threads :
        (variant = "ObservabilityBufferWithConsume" /\ AtRet(t, "get_spans")) =>
            LET s == Len(thr[t].pre)
                m == Min(thr[t].arg, s)
            IN  /\ ~thr[t].exc
                /\ size(buf) = s - m
                /\ thr[t].retL = SubSeq(thr[t].pre, 1, m)
                /\ buf = SubSeq(thr[t].pre, m + 1, s)

C4_Witness ==
    \E t \in Threads :
        /\ variant = "ObservabilityBufferWithConsume" /\ AtRet(t, "get_spans")
        /\ Len(thr[t].pre) = 2
        /\ thr[t].arg = 1
        /\ Len(buf) = 1

\* a list mixes spans appended before some clear with spans appended after it
MixesAcrossClear(s) ==
    \E m \in clearMarks : \E i, j \in Range(s) : i <= m /\ m < j

\* C9: clear() is atomic with respect to add_span and get_spans: a get_spans
\* returns a prefix of the deque as it was when the call took the lock, never
\* spans from both sides of a clear; and once a clear has run with no append
\* after it the buffer is empty.
C9_ClearAtomic ==
    /\ \A t \in Threads :
           AtRet(t, "get_spans") =>
               /\ ~thr[t].exc
               /\ IsPrefix(thr[t].retL, thr[t].pre)
               /\ ~MixesAcrossClear(thr[t].retL)
    /\ \A t \in Threads : AtRet(t, "clear") => buf = <<>>
    /\ nAdded \in clearMarks => (size(buf) = 0 /\ is_empty(buf))

C9_Witness ==
    \E t \in Threads :
        /\ AtRet(t, "get_spans")
        /\ thr[t].retL # <<>>
        /\ \E m \in clearMarks : m >= 1 /\ \A i \in Range(thr[t].retL) : i > m

\* C10: in ObservabilityBuffer, TraceBufferPortReadOnly and
\* RejectWhenFullBuffer get_spans(count) leaves the deque as it was, and two
\* get_spans with the same count and no write between them return equal lists.
C10_GetReadOnly ==
    \A t \in Threads :
        (variant \in ReadOnlyGetVariants /\ AtRet(t, "get_spans")) =>
            /\ buf = thr[t].pre
            /\ (lastGet.valid /\ lastGet.count = thr[t].arg) =>
                   thr[t].retL = lastGet.result

C10_Witness ==
    \E t \in Threads :
        /\ variant \in ReadOnlyGetVariants /\ AtRet(t, "get_spans")
        /\ lastGet.valid /\ lastGet.count = thr[t].arg
        /\ thr[t].retL # <<>>
        /\ Len(thr[t].retL) < Len(buf)

\* C11: in every variant, get_spans(count) on a buffer of s spans returns
\* exactly min(count, s) spans, the oldest ones in insertion order; a count
\* above s gives all s spans, without padding and without an error.
C11_GetReturnsFront ==
    \A t \in Threads :
        AtRet(t, "get_spans") =>
            LET s == Len(thr[t].pre)
                m == Min(thr[t].arg, s)
            IN  /\ ~thr[t].exc
                /\ Len(thr[t].retL) = m
                /\ \A i \in 1..m : thr[t].retL[i] = thr[t].pre[i]
                /\ thr[t].arg >= s => thr[t].retL = thr[t].pre

C11_Witness ==
    \E t \in Threads :
        /\ AtRet(t, "get_spans")
        /\ Len(thr[t].pre) = 2
        /\ thr[t].arg > 2
        /\ thr[t].retL = thr[t].pre
        /\ thr[t].pre[1] < thr[t].pre[2]

\* add_span calls that hold a True result and have not yet handed it back
AddsReturningTrue == {t \in Threads : AtRet(t, "add_span") /\ thr[t].retB}

AllIdle == \A t \in Threads : thr[t].pc = "idle"

\* C17: threads adding concurrently to one RejectWhenFullBuffer (no clear):
\* the number of calls that return True equals the number of spans stored,
\* never exceeds N, and is N once at least N adds have been made.
C17_AcceptedEqualsSize ==
    (variant = "RejectWhenFullBuffer" /\ clearMarks = {}) =>
        /\ accepted + Cardinality(AddsReturningTrue) = size(buf)
        /\ accepted + Cardinality(AddsReturningTrue) <= max_size
        /\ (AllIdle /\ nextId - 1 >= max_size) => accepted = max_size

C17_Witness ==
    /\ variant = "RejectWhenFullBuffer" /\ clearMarks = {}
    /\ AllIdle
    /\ max_size = MaxN
    /\ nextId - 1 > max_size
    /\ accepted = max_size

\* ======================================================================
\* Claims about Export (checked under SpecExport)
\* ======================================================================
ExportDone(t) == ex[t].pc = "done"

RequestOf(t) == Requests[ex[t].req]

\* C5: Export never raises: whatever the request, and whether the conversion
\* of a span or the storage port raised, the call ends by returning an empty
\* ExportTraceServiceResponse.
C5_ExportNeverRaises ==
    \A t \in Threads :
        ExportDone(t) => ex[t].resp = "ExportTraceServiceResponse"

C5_Witness ==
    \E t, u \in Threads :
        /\ ExportDone(t) /\ ex[t].exc = "ValueError"
        /\ ExportDone(u) /\ ex[u].exc = "Exception"
        /\ ex[t].resp = "ExportTraceServiceResponse"
        /\ ex[u].resp = "ExportTraceServiceResponse"

AddStoreEvents(tr) == SelectSeq(tr, LAMBDA e : e.ev \in {"add", "store"})

\* C6: an Export whose walk ends without an exception has called the storage
\* port once per wire span: for a request of m spans the buffer attempts and
\* the storage calls alternate (add 1, store 1, ..., add m, store m) and every
\* storage call carries the serialization of the whole request.
C6_StoreOncePerSpan ==
    \A t \in Threads :
        (ExportDone(t) /\ ex[t].exc = "none") =>
            LET m == Len(WalkOrder(RequestOf(t)))
                es == AddStoreEvents(ex[t].trace)
            IN  /\ Len(es) = 2 * m
                /\ \A j \in 1..m :
                       /\ es[2 * j - 1].ev = "add" /\ es[2 * j - 1].i = j
                       /\ es[2 * j].ev = "store" /\ es[2 * j].i = j
                       /\ es[2 * j].payload = SerializeToString(RequestOf(t))

C6_Witness ==
    \E t \in Threads :
        /\ ExportDone(t) /\ ex[t].exc = "none"
        /\ Len(WalkOrder(RequestOf(t))) = 3
        /\ \E j \in 1..Len(ex[t].trace) : ex[t].trace[j].ev = "drain"

\* C7: when add_span reports a full buffer during Export, the adapter clears
\* the buffer once and adds the span once more: when the lock is released the
\* buffer holds that span alone, current_size is 1, and in the call's history
\* a refused add is followed by exactly one drain and one retry, which occur
\* nowhere else.
C7_DrainOnceRetryOnce ==
    \A t \in Threads :
        LET tr == ex[t].trace
            n == Len(tr)
        IN  /\ (ex[t].pc = "unlock" /\ ex[t].overflow) =>
                   /\ obuf.buffer = <<ex[t].span>>
                   /\ obuf.current_size = 1
                   /\ n >= 3
                   /\ tr[n - 2].ev = "add" /\ ~tr[n - 2].ok
                   /\ tr[n - 1].ev = "drain"
                   /\ tr[n].ev = "retry" /\ tr[n].ok
            /\ \A j \in 1..n :
                   /\ tr[j].ev = "drain" =>
                          (j > 1 /\ tr[j - 1].ev = "add" /\ ~tr[j - 1].ok)
                   /\ tr[j].ev = "retry" => (j > 1 /\ tr[j - 1].ev = "drain")
                   /\ (tr[j].ev = "add" /\ tr[j].ok /\ j < n) =>
                          tr[j + 1].ev = "store"

C7_Witness ==
    \E t \in Threads :
        /\ obuf.max_size = 1
        /\ ex[t].pc = "store"
        /\ ex[t].overflow
        /\ ex[t].exc = "none"
        /\ ex[t].span.name = "s2"
        /\ obuf.buffer = <<ex[t].span>>
        /\ obuf.current_size = 1

\* C8: a wire span that fails conversion is skipped and the walk goes on:
\* when Export ends (the storage port not having raised), every valid span of
\* the request has been offered to the buffer and forwarded to storage.
C8_BadSpanSkipped ==
    \A t \in Threads :
        (ExportDone(t) /\ ex[t].exc # "Exception") =>
            \A i \in 1..Len(WalkOrder(RequestOf(t))) :
                CreateTraceSpanFromOtlp(WalkOrder(RequestOf(t))[i]).ok =>
                    /\ \E j \in 1..Len(ex[t].trace) :
                           ex[t].trace[j].ev = "add" /\ ex[t].trace[j].i = i
                    /\ \E j \in 1..Len(ex[t].trace) :
                           ex[t].trace[j].ev = "store" /\ ex[t].trace[j].i = i


\* the spans of a request by their place on the wire: <<r, s, k>> is span k
\* of scope s of resource r
WirePaths(req) ==
    UNION {UNION {{<<r, s, k>> :
                      k \in 1..Len(req.resource_spans[r].scope_spans[s].spans)} :
                  s \in 1..Len(req.resource_spans[r].scope_spans)} :
           r \in 1..Len(req.resource_spans)}

PathBefore(p, q) ==
    \/ p[1] < q[1]
    \/ p[1] = q[1] /\ p[2] < q[2]
    \/ p[1] = q[1] /\ p[2] = q[2] /\ p[3] < q[3]

\* the i-th span of the request in depth-first wire order
WireSpanAt(req, i) ==
    LET p == CHOOSE q \in WirePaths(req) :
                 Cardinality({o \in WirePaths(req) : PathBefore(o, q)}) = i - 1
    IN  req.resource_spans[p[1]].scope_spans[p[2]].spans[p[3]]

\* C13: one Export offers the spans of its request to the buffer in wire
\* order (resource, scope, span, depth-first), and any two spans of one
\* request that are in the buffer together stand there in wire order, also
\* when Exports run concurrently.
C13_WireOrderKept ==
    /\ \A t \in Threads :
         /\ ex[t].pc \in {"add", "drain", "retry", "unlock", "store"} =>
                ex[t].span.span_id =
                    Hex(WireSpanAt(RequestOf(t), ex[t].i).span_id)
         /\ \A a, b \in 1..Len(ex[t].trace) :
                (a < b /\ ex[t].trace[a].ev = "add" /\ ex[t].trace[b].ev = "add")
                    => ex[t].trace[a].i < ex[t].trace[b].i
    /\ \A p, q \in 1..Len(obuf.buffer) :
         (p < q /\ obuf.buffer[p].origin.call = obuf.buffer[q].origin.call)
             => obuf.buffer[p].origin.i < obuf.buffer[q].origin.i

\* two spans of the three-resource request are in the buffer while the other
\* thread is inside Export
C13_Witness ==
    \E t \in Threads :
        /\ ex[t].req = 5
        /\ ex[t].pc = "store"
        /\ Len(obuf.buffer) = 2
        /\ obuf.buffer[1].origin = [call |-> ex[t].call, i |-> 2]
        /\ obuf.buffer[2].origin = [call |-> ex[t].call, i |-> 3]
        /\ obuf.buffer[1].name = "s2"
        /\ obuf.buffer[2].name = "s3"
        /\ \E u \in Threads \ {t} : ex[u].pc \notin OutsideExport

AllValid(req) ==
    \A i \in 1..Len(WalkOrder(req)) : CreateTraceSpanFromOtlp(WalkOrder(req)[i]).ok

\* an Export that has ended, during which no other Export ran, of a request
\* of m >= 1 spans, all valid, into a buffer that had at least m free slots
ValidExportDone(t) ==
    /\ ExportDone(t)
    /\ ex[t].alone
    /\ Len(WalkOrder(RequestOf(t))) >= 1
    /\ AllValid(RequestOf(t))
    /\ ex[t].obuf0.current_size + Len(WalkOrder(RequestOf(t)))
           <= ex[t].obuf0.max_size

\* the buffer is the one the call found, followed by n more spans
GrownBy(t, n) ==
    /\ obuf.current_size = ex[t].obuf0.current_size + n
    /\ Len(obuf.buffer) = Len(ex[t].obuf0.buffer) + n
    /\ IsPrefix(ex[t].obuf0.buffer, obuf.buffer)

\* C14: an Export of m valid spans (m >= 1) that finds at least m free slots
\* returns a valid response and leaves the buffer exactly m spans larger.
C14_SizeGrowsByM ==
    \A t \in Threads :
        ValidExportDone(t) =>
            /\ ex[t].resp = "ExportTraceServiceResponse"
            /\ GrownBy(t, Len(WalkOrder(RequestOf(t))))

\* C14 (amended): such an Export returns a valid response; it leaves the
\* buffer exactly m spans larger when the storage port has not raised, so
\* always when m = 1, and exactly i spans larger when the storage port
\* raised at span i.
C14_SizeGrowsByAdds ==
    \A t \in Threads :
        ValidExportDone(t) =>
            /\ ex[t].resp = "ExportTraceServiceResponse"
            /\ ex[t].exc = "none" => GrownBy(t, Len(WalkOrder(RequestOf(t))))
            /\ ex[t].exc # "none" => GrownBy(t, ex[t].i)
            /\ Len(WalkOrder(RequestOf(t))) = 1 => GrownBy(t, 1)

C14_Witness ==
    \E t \in Threads :
        /\ ExportDone(t)
        /\ ex[t].alone
        /\ ex[t].req = 4
        /\ ex[t].exc = "none"
        /\ ex[t].obuf0.current_size = 0
        /\ obuf.current_size = 2
        /\ ex[t].resp = "ExportTraceServiceResponse"

\* C15: an Export of the empty request returns a valid response, makes no
\* call to the buffer or to the storage port, and leaves the buffer as it
\* found it.
C15_EmptyRequestNoEffect ==
    \A t \in Threads :
        (ExportDone(t) /\ RequestOf(t).resource_spans = <<>>) =>
            /\ ex[t].resp = "ExportTraceServiceResponse"
            /\ ex[t].exc = "none"
            /\ ex[t].trace = <<>>
            /\ ex[t].alone => obuf = ex[t].obuf0

C15_Witness ==
    \E t \in Threads :
        /\ ExportDone(t)
        /\ RequestOf(t).resource_spans = <<>>
        /\ ex[t].alone
        /\ ex[t].obuf0.current_size = 1
        /\ obuf.current_size = 1

\* C16: get_buffer_status returns the four values of one buffer state:
\* max_size is the capacity, is_full is (current_size >= max_size), is_empty
\* is (current_size = 0), also while another thread is inside Export; the
\* buffer is the same from the first read to the last.
C16_StatusIsSnapshot ==
    \A t \in Threads :
        /\ ex[t].pc \in {"status", "status_full", "status_empty"} =>
               obuf = ex[t].obuf0
        /\ ex[t].pc = "status_done" =>
               /\ ex[t].status.current_size = ex[t].obuf0.current_size
               /\ ex[t].status.max_size = ex[t].obuf0.max_size
               /\ ex[t].status.max_size = obuf.max_size
               /\ ex[t].status.is_full =
                      (ex[t].status.current_size >= ex[t].status.max_size)
               /\ ex[t].status.is_empty = (ex[t].status.current_size = 0)

C16_Witness ==
    \E t \in Threads :
        /\ ex[t].pc = "status_done"
        /\ ex[t].status.is_full
        /\ ex[t].status.current_size = 2
        /\ \E u \in Threads \ {t} : ex[u].pc \notin OutsideExport

\* ======================================================================
\* Part III: constructors and pure functions, applied to drawn inputs
\* ======================================================================

\* -------------------------------------------------- buffer construction
MaxCtorArg == 3

BufferClasses == Variants \cup {"domain.ObservabilityBuffer"}

\* the max_size arguments of the constructor calls, zero and negatives too
CtorArgs == (0 - 2)..MaxCtorArg

Queries == {"size", "is_full", "is_empty"}

NoObj == [built |-> FALSE, max_size |-> 0, buffer |-> <<>>, current_size |-> 0]

\* faulty variant: only negative sizes are refused
MaxSizeRejected_zeroAllowed(n) == n < 0

\* `if max_size <= 0: raise ValueError("max_size must be positive")`
MaxSizeRejected(n) == n <= 0

\* __init__ / __post_init__ called with max_size only
Construct(cls, n) ==
    IF MaxSizeRejected(n)
    THEN [exc |-> "ValueError", obj |-> NoObj]
    ELSE [exc |-> "none",
          obj |-> [built |-> TRUE, max_size |-> n, buffer |-> <<>>,
                   current_size |-> 0]]

\* size(), is_full(), is_empty() of a constructed buffer: the application
\* classes measure the deque, the domain dataclass reads its counter
ObjSize(cls, o) ==
    IF cls = "domain.ObservabilityBuffer" THEN o.current_size
    ELSE size(o.buffer)

ObjIsFull(cls, o) ==
    IF cls = "domain.ObservabilityBuffer" THEN o.current_size >= o.max_size
    ELSE is_full(o.buffer, o.max_size)

ObjIsEmpty(cls, o) ==
    IF cls = "domain.ObservabilityBuffer" THEN o.current_size = 0
    ELSE is_empty(o.buffer)

CtorInit ==
    pure \in [pc : {"new"}, cls : BufferClasses, arg : CtorArgs,
              exc : {"none"}, obj : {NoObj}, q : {"none"},
              ansN : {0}, ansB : {FALSE}]

Ctor_new ==
    /\ pure.pc = "new"
    /\ LET r == Construct(pure.cls, pure.arg)
       IN  pure' = [pure EXCEPT !.pc = IF r.exc = "none" THEN "built"
                                       ELSE "raised",
                                !.exc = r.exc, !.obj = r.obj]
    /\ UNCHANGED <<bufVars, expVars, memVars, svcVars>>

Ctor_query ==
    /\ pure.pc = "built"
    /\ \E q \in Queries :
         pure' = [pure EXCEPT
                    !.pc = "asked", !.q = q,
                    !.ansN = IF q = "size" THEN ObjSize(pure.cls, pure.obj)
                             ELSE 0,
                    !.ansB = CASE q = "is_full" -> ObjIsFull(pure.cls, pure.obj)
                               [] q = "is_empty" -> ObjIsEmpty(pure.cls, pure.obj)
                               [] OTHER -> FALSE]
    /\ UNCHANGED <<bufVars, expVars, memVars, svcVars>>

NextCtor == Ctor_new \/ Ctor_query

InitCtor == BufParked /\ ExportParked /\ MemParked /\ SvcParked /\ CtorInit

SpecCtor == InitCtor /\ [][NextCtor]_vars

\* C12: constructing any buffer class with max_size <= 0 raises ValueError
\* and leaves no buffer; with max_size >= 1 the constructor succeeds and the
\* buffer is empty and not full.
C12_CtorValidates ==
    pure.pc # "new" =>
        /\ pure.arg <= 0 =>
               pure.pc = "raised" /\ pure.exc = "ValueError" /\ ~pure.obj.built
        /\ pure.arg >= 1 =>
               /\ pure.pc \in {"built", "asked"}
               /\ pure.exc = "none"
               /\ pure.obj.built
               /\ pure.obj.max_size = pure.arg
               /\ pure.obj.buffer = <<>>
        /\ pure.pc = "asked" =>
               /\ pure.q = "size" => pure.ansN = 0
               /\ pure.q = "is_full" => ~pure.ansB
               /\ pure.q = "is_empty" => pure.ansB

C12_Witness ==
    /\ pure.pc = "raised"
    /\ pure.arg = 0
    /\ pure.cls = "RejectWhenFullBuffer"


\* ------------------------------------------- TraceId / SpanId construction
MaxExtra == 2

\* lengths around the two nominal lengths, and the shortest strings
IdLens ==
    {0, 1} \cup ((SpanIdLen - 1)..(SpanIdLen + MaxExtra))
           \cup ((TraceIdLen - 1)..(TraceIdLen + MaxExtra))

FillChars == {"0", "9", "a", "f", "A", "F"}

OddChars == {"g", "G", " ", "-", "\n", "x"}

\* a string of `len` characters `fill`, with the first (where = 1) or the
\* last (where = 2) character replaced by `ch`
MkString(len, fill, where, ch) ==
    [i \in 1..len |-> IF (where = 1 /\ i = 1) \/ (where = 2 /\ i = len)
                      THEN ch ELSE fill]

IdStrings ==
    {MkString(l, f, w, c) : l \in IdLens, f \in FillChars,
                            w \in 0..2, c \in OddChars}

IdClasses == {"TraceId", "SpanId"}

IdInit ==
    pure \in [pc : {"new"}, cls : IdClasses, s : IdStrings,
              exc : {"none"}, value : {<<>>}]

\* TraceId(s) / SpanId(s): the frozen dataclass keeps s as its value unless
\* __post_init__ raises
Id_new ==
    /\ pure.pc = "new"
    /\ LET ok == IF pure.cls = "TraceId" THEN TraceIdOk(pure.s)
                 ELSE SpanIdOk(pure.s)
       IN  pure' = IF ok
                   THEN [pure EXCEPT !.pc = "built", !.value = pure.s]
                   ELSE [pure EXCEPT !.pc = "raised", !.exc = "ValueError"]
    /\ UNCHANGED <<bufVars, expVars, memVars, svcVars>>

NextId == Id_new

InitId == BufParked /\ ExportParked /\ MemParked /\ SvcParked /\ IdInit

SpecId == InitId /\ [][NextId]_vars

\* exactly n hexadecimal characters
IsHexOfLen(str, n) ==
    Len(str) = n /\ \A i \in 1..Len(str) : str[i] \in HexChars

NominalLen(cls) == IF cls = "TraceId" THEN 32 ELSE 16

\* C18: TraceId(s) is built, with value s, exactly when s has exactly 32
\* hexadecimal characters, SpanId(s) exactly when s has exactly 16; every
\* other string makes the construction fail.
C18_IdExactlyHex ==
    pure.pc # "new" =>
        IF IsHexOfLen(pure.s, NominalLen(pure.cls))
        THEN pure.pc = "built" /\ pure.value = pure.s
        ELSE pure.pc = "raised"

\* C18: a TraceId is built from 33 characters, the last one a newline
C18_NewlineIdAccepted ==
    /\ pure.pc = "built"
    /\ pure.cls = "TraceId"
    /\ Len(pure.s) = 33
    /\ pure.s[33] = "\n"
    /\ pure.value = pure.s


\* --------------------------------------------- conversion of one wire span
MaxTime == 2

\* the field values of the wire spans offered to the conversion
WireTraceIds == {IdBytes(16, 1), IdBytes(15, 1), <<>>}

WireSpanIds == {IdBytes(8, 1), IdBytes(7, 1)}

WireParentIds == {<<>>, IdBytes(8, 2), IdBytes(3, 2)}

WireNames == {"op", ""}

WireKinds == {0, 4, 5, 6}

WireTimes == 0..MaxTime

WireEvents == {<<>>, <<"ev">>, <<"">>, <<"e1", "e2">>, <<"e1", "", "e2">>}

WireStatusCodes == {0, 2, 3}

WireSpans ==
    [trace_id : WireTraceIds, span_id : WireSpanIds,
     parent_span_id : WireParentIds, name : WireNames, kind : WireKinds,
     start_time_unix_nano : WireTimes, end_time_unix_nano : WireTimes,
     events : WireEvents, status_code : WireStatusCodes]

ConvInit ==
    pure \in [pc : {"new"}, w : WireSpans, exc : {"none"}, span : {NoSpan},
              buffer : {DomainBuffer(1)}]

\* Export, lines 99-100: the wire span is converted; a constructor that
\* raises leaves the loop body before the buffer is touched
Conv_convert ==
    /\ pure.pc = "new"
    /\ LET r == CreateTraceSpanFromOtlp(pure.w)
       IN  pure' = IF r.ok
                   THEN [pure EXCEPT !.pc = "converted", !.span = r.span]
                   ELSE [pure EXCEPT !.pc = "raised", !.exc = r.exc]
    /\ UNCHANGED <<bufVars, expVars, memVars, svcVars>>

\* Export, line 102: the converted span is offered to the buffer
Conv_add ==
    /\ pure.pc = "converted"
    /\ pure' = [pure EXCEPT !.pc = "added",
                            !.buffer = DomainAddSpan(@, pure.span).b]
    /\ UNCHANGED <<bufVars, expVars, memVars, svcVars>>

NextConv == Conv_convert \/ Conv_add

InitConv == BufParked /\ ExportParked /\ MemParked /\ SvcParked /\ ConvInit

SpecConv == InitConv /\ [][NextConv]_vars

\* C19: a wire span whose end time is before its start time always fails
\* conversion, whatever its other fields are: no TraceSpan is produced and
\* nothing is added to the buffer.
C19_EndBeforeStartFails ==
    (pure.pc # "new"
        /\ pure.w.end_time_unix_nano < pure.w.start_time_unix_nano) =>
        /\ pure.pc = "raised"
        /\ pure.exc = "ValueError"
        /\ pure.span = NoSpan
        /\ pure.buffer = DomainBuffer(1)

\* every field but the times is valid, and the conversion has raised
C19_Witness ==
    /\ pure.pc = "raised"
    /\ pure.w.end_time_unix_nano < pure.w.start_time_unix_nano
    /\ pure.w.trace_id = IdBytes(16, 1)
    /\ pure.w.span_id = IdBytes(8, 1)
    /\ pure.w.parent_span_id = IdBytes(8, 2)
    /\ pure.w.name = "op"
    /\ pure.w.kind = 0
    /\ pure.w.events = <<"ev">>
    /\ pure.w.status_code = 0
    /\ pure.buffer.current_size = 0


\* a wire span whose fields other than the event names and the kind are valid
ValidButEventsAndKind(w) ==
    /\ w.trace_id = IdBytes(16, 1)
    /\ w.span_id = IdBytes(8, 1)
    /\ w.parent_span_id \in {<<>>, IdBytes(8, 2)}
    /\ w.name = "op"
    /\ w.start_time_unix_nano <= w.end_time_unix_nano
    /\ w.status_code \in {0, 1, 2}

NamedEvents(evs) == SelectSeq(evs, LAMBDA e : e # "")

\* C22: an event without a name is dropped and the span is converted with
\* its other events in wire order; it never makes the conversion fail.
C22_NamelessEventDropped ==
    (pure.pc # "new" /\ ValidButEventsAndKind(pure.w) /\ pure.w.kind \in 0..4) =>
        /\ pure.pc \in {"converted", "added"}
        /\ pure.span.events = NamedEvents(pure.w.events)

\* C22: a span valid but for a nameless event between two named ones has
\* failed conversion
C22_NamelessEventRaises ==
    /\ pure.pc = "raised"
    /\ pure.exc = "ValueError"
    /\ ValidButEventsAndKind(pure.w)
    /\ pure.w.kind = 0
    /\ pure.w.events = <<"e1", "", "e2">>

\* the OTLP span kinds: UNSPECIFIED, INTERNAL, SERVER, CLIENT, PRODUCER,
\* CONSUMER
OtlpSpanKinds == 0..5

\* C23: for every OTLP span kind of a span that is otherwise valid, the
\* conversion succeeds and the TraceSpan has the kind of the wire span.
C23_KindPreserved ==
    (/\ pure.pc # "new"
     /\ ValidButEventsAndKind(pure.w)
     /\ pure.w.events = NamedEvents(pure.w.events)
     /\ pure.w.kind \in OtlpSpanKinds) =>
        /\ pure.pc \in {"converted", "added"}
        /\ pure.span.kind = pure.w.kind

\* C23: a valid span of kind CONSUMER has failed conversion
C23_ConsumerRaises ==
    /\ pure.pc = "raised"
    /\ pure.exc = "ValueError"
    /\ ValidButEventsAndKind(pure.w)
    /\ pure.w.events = <<"e1", "e2">>
    /\ pure.w.kind = 5


\* ------------------------------------------------ attribute value extraction
MaxVals == 2

\* A wire value is a function from the fields that are set to the value each
\* holds (values are told apart by an index). A native value carries the
\* type of the field it was read from.
Native(t, i) == [type |-> t, idx |-> i, keys |-> {}]

None == [type |-> "None", idx |-> 0, keys |-> {}]

\* the dict handed back unchanged
AsIs(m) == [type |-> "dict", idx |-> 0, keys |-> DOMAIN m]

\* AnyValue: the fields of the protobuf oneof `value`, at most one is set
ProtoFields == {"string_value", "bool_value", "int_value", "double_value",
                "bytes_value", "array_value", "kvlist_value"}

ProtoValues ==
    UNION {[S -> 1..MaxVals] :
              S \in {T \in SUBSET ProtoFields : Cardinality(T) <= 1}}

HasField(m, f) == f \in DOMAIN m

\* OTLPgRPCAdapter._extract_attribute_value
ExtractAttributeValue(m) ==
    IF HasField(m, "string_value") THEN Native("string", m["string_value"])
    ELSE IF HasField(m, "bool_value") THEN Native("bool", m["bool_value"])
    ELSE IF HasField(m, "int_value") THEN Native("int", m["int_value"])
    ELSE IF HasField(m, "double_value") THEN Native("double", m["double_value"])
    ELSE IF HasField(m, "bytes_value") THEN Native("bytes", m["bytes_value"])
    ELSE None

\* the value objects of the JSON form: a dict with any of these keys
DictKeys == {"stringValue", "boolValue", "intValue", "doubleValue",
             "bytesValue"}

DictValues == UNION {[S -> 1..MaxVals] : S \in SUBSET DictKeys}

\* OTLPParsingService._extract_value_from_otlp_value, for a dict argument
\* without arrayValue and kvlistValue
ExtractValueFromOtlpValue(m) ==
    IF "stringValue" \in DOMAIN m THEN Native("string", m["stringValue"])
    ELSE IF "intValue" \in DOMAIN m THEN Native("int", m["intValue"])
    ELSE IF "boolValue" \in DOMAIN m THEN Native("bool", m["boolValue"])
    ELSE IF "doubleValue" \in DOMAIN m THEN Native("double", m["doubleValue"])
    ELSE AsIs(m)

ExtractInit ==
    \/ pure \in [pc : {"new"}, fn : {"_extract_attribute_value"},
                 m : ProtoValues, out : {None}]
    \/ pure \in [pc : {"new"}, fn : {"_extract_value_from_otlp_value"},
                 m : DictValues, out : {None}]

Extract_adapter ==
    /\ pure.pc = "new"
    /\ pure.fn = "_extract_attribute_value"
    /\ pure' = [pure EXCEPT !.pc = "returned",
                            !.out = ExtractAttributeValue(pure.m)]
    /\ UNCHANGED <<bufVars, expVars, memVars, svcVars>>

Extract_parsing ==
    /\ pure.pc = "new"
    /\ pure.fn = "_extract_value_from_otlp_value"
    /\ pure' = [pure EXCEPT !.pc = "returned",
                            !.out = ExtractValueFromOtlpValue(pure.m)]
    /\ UNCHANGED <<bufVars, expVars, memVars, svcVars>>

NextExtract == Extract_adapter \/ Extract_parsing

InitExtract == BufParked /\ ExportParked /\ MemParked /\ SvcParked /\ ExtractInit

SpecExtract == InitExtract /\ [][NextExtract]_vars

\* the scalar types in the stated order of precedence
ScalarTypes == <<"string", "bool", "int", "double", "bytes">>

FieldName(fn, t) ==
    IF fn = "_extract_attribute_value"
    THEN CASE t = "string" -> "string_value" [] t = "bool" -> "bool_value"
           [] t = "int" -> "int_value" [] t = "double" -> "double_value"
           [] OTHER -> "bytes_value"
    ELSE CASE t = "string" -> "stringValue" [] t = "bool" -> "boolValue"
           [] t = "int" -> "intValue" [] t = "double" -> "doubleValue"
           [] OTHER -> "bytesValue"

\* positions in ScalarTypes of the scalar fields that are set in m
SetScalars(fn, m) ==
    {k \in 1..Len(ScalarTypes) : FieldName(fn, ScalarTypes[k]) \in DOMAIN m}

OnlyScalars(fn, m) ==
    DOMAIN m \subseteq {FieldName(fn, ScalarTypes[k]) : k \in 1..Len(ScalarTypes)}

First(S) == CHOOSE k \in S : \A j \in S : k <= j

\* C20: the extractor returns the native value of the field that is set, by
\* the precedence string > bool > int > double > bytes when several are set,
\* and the null marker when no field is set.
C20_ExtractPrecedence ==
    (pure.pc = "returned" /\ OnlyScalars(pure.fn, pure.m)) =>
        LET S == SetScalars(pure.fn, pure.m)
        IN  IF S = {} THEN pure.out = None
            ELSE LET t == ScalarTypes[First(S)]
                 IN  pure.out = Native(t, pure.m[FieldName(pure.fn, t)])

\* C20: the parsing service is given intValue and boolValue together and
\* returns the int
C20_IntBeforeBool ==
    /\ pure.pc = "returned"
    /\ pure.fn = "_extract_value_from_otlp_value"
    /\ DOMAIN pure.m = {"intValue", "boolValue"}
    /\ pure.out = Native("int", pure.m["intValue"])


\* ------------------------------------------- extraction of nested values
MaxDepth == 2

\* A wire value here is a record: `f` is the field that is set, `n` tells
\* scalar values of one field apart, `items` are the values of an array or
\* the key/value entries of a key-value list.
Scalar(f, n) == [f |-> f, n |-> n, items |-> <<>>]

ArrayValue(vs) == [f |-> "array_value", n |-> 0, items |-> vs]

KvlistValue(kvs) == [f |-> "kvlist_value", n |-> 0, items |-> kvs]

KeyValue(k, v) == [key |-> k, value |-> v]

NestLeaves == {Scalar("string_value", 1), Scalar("bool_value", 1),
               Scalar("int_value", 1), Scalar("double_value", 1)}

\* the arrays and key-value lists of up to two entries that hold a value x
\* and possibly a scalar l before or after it
Containers(x, l) ==
    {ArrayValue(<<x>>), ArrayValue(<<l, x>>), ArrayValue(<<x, l>>),
     KvlistValue(<<KeyValue("k1", x)>>),
     KvlistValue(<<KeyValue("k1", l), KeyValue("k2", x)>>),
     KvlistValue(<<KeyValue("k1", x), KeyValue("k2", l)>>)}

\* the wire values nested at most d deep
RECURSIVE NestedValues(_)
NestedValues(d) ==
    IF d = 0 THEN NestLeaves
    ELSE NestLeaves
         \cup {ArrayValue(<<>>), KvlistValue(<<>>)}
         \cup UNION {Containers(x, l) : x \in NestedValues(d - 1),
                                        l \in NestLeaves}

\* native results: a scalar, None, a list, or a dict (its entries in
\* insertion order)
PyScalar(t, n) == [type |-> t, n |-> n, items |-> <<>>]

PyNone == [type |-> "None", n |-> 0, items |-> <<>>]

PyList(rs) == [type |-> "list", n |-> 0, items |-> rs]

PyDict(es) == [type |-> "dict", n |-> 0, items |-> es]

\* the value object handed back as it came
PyUnchanged(v) == [type |-> "unchanged", n |-> v.n, items |-> v.items]

\* OTLPgRPCAdapter._extract_attribute_value on the record form
AdapterExtract(v) ==
    IF v.f = "string_value" THEN PyScalar("string", v.n)
    ELSE IF v.f = "bool_value" THEN PyScalar("bool", v.n)
    ELSE IF v.f = "int_value" THEN PyScalar("int", v.n)
    ELSE IF v.f = "double_value" THEN PyScalar("double", v.n)
    ELSE IF v.f = "bytes_value" THEN PyScalar("bytes", v.n)
    ELSE PyNone

\* otlp_processing._convert_any_value
RECURSIVE ConvertAnyValue(_)
ConvertAnyValue(v) ==
    IF v.f = "string_value" THEN PyScalar("string", v.n)
    ELSE IF v.f = "bool_value" THEN PyScalar("bool", v.n)
    ELSE IF v.f = "int_value" THEN PyScalar("int", v.n)
    ELSE IF v.f = "double_value" THEN PyScalar("double", v.n)
    ELSE IF v.f = "array_value"
         THEN PyList([i \in 1..Len(v.items) |-> ConvertAnyValue(v.items[i])])
    ELSE IF v.f = "kvlist_value"
         THEN PyDict([i \in 1..Len(v.items) |->
                         KeyValue(v.items[i].key,
                                  ConvertAnyValue(v.items[i].value))])
    ELSE PyNone

\* OTLPParsingService._extract_value_from_otlp_value with _parse_attributes,
\* on the JSON form of the same values (stringValue for string_value, and
\* { "values": [...] } under arrayValue and kvlistValue)
RECURSIVE ExtractValueNested(_)
ExtractValueNested(v) ==
    IF v.f = "string_value" THEN PyScalar("string", v.n)
    ELSE IF v.f = "int_value" THEN PyScalar("int", v.n)
    ELSE IF v.f = "bool_value" THEN PyScalar("bool", v.n)
    ELSE IF v.f = "double_value" THEN PyScalar("double", v.n)
    ELSE IF v.f = "array_value"
         THEN PyList([i \in 1..Len(v.items) |-> ExtractValueNested(v.items[i])])
    ELSE IF v.f = "kvlist_value"
         THEN PyDict([i \in 1..Len(v.items) |->
                         KeyValue(v.items[i].key,
                                  ExtractValueNested(v.items[i].value))])
    ELSE PyUnchanged(v)

Extractors == {"_extract_attribute_value", "_convert_any_value",
               "_extract_value_from_otlp_value"}

NestedInit ==
    pure \in [pc : {"new"}, fn : Extractors, v : NestedValues(MaxDepth),
              out : {PyNone}]

Nested_adapter ==
    /\ pure.pc = "new"
    /\ pure.fn = "_extract_attribute_value"
    /\ pure' = [pure EXCEPT !.pc = "returned", !.out = AdapterExtract(pure.v)]
    /\ UNCHANGED <<bufVars, expVars, memVars, svcVars>>

Nested_convert ==
    /\ pure.pc = "new"
    /\ pure.fn = "_convert_any_value"
    /\ pure' = [pure EXCEPT !.pc = "returned", !.out = ConvertAnyValue(pure.v)]
    /\ UNCHANGED <<bufVars, expVars, memVars, svcVars>>

Nested_parsing ==
    /\ pure.pc = "new"
    /\ pure.fn = "_extract_value_from_otlp_value"
    /\ pure' = [pure EXCEPT !.pc = "returned",
                            !.out = ExtractValueNested(pure.v)]
    /\ UNCHANGED <<bufVars, expVars, memVars, svcVars>>

NextNested == Nested_adapter \/ Nested_convert \/ Nested_parsing

InitNested == BufParked /\ ExportParked /\ MemParked /\ SvcParked /\ NestedInit

SpecNested == InitNested /\ [][NextNested]_vars

\* what the extraction rule gives for a wire value: the scalar of the field
\* set, the list of what it gives for the elements of an array, the dict of
\* what it gives for the entries of a key-value list
RECURSIVE ByTheRule(_)
ByTheRule(v) ==
    CASE v.f = "array_value" ->
             PyList([i \in 1..Len(v.items) |-> ByTheRule(v.items[i])])
      [] v.f = "kvlist_value" ->
             PyDict([i \in 1..Len(v.items) |->
                        KeyValue(v.items[i].key, ByTheRule(v.items[i].value))])
      [] v.f = "string_value" -> PyScalar("string", v.n)
      [] v.f = "bool_value" -> PyScalar("bool", v.n)
      [] v.f = "int_value" -> PyScalar("int", v.n)
      [] v.f = "double_value" -> PyScalar("double", v.n)
      [] OTHER -> PyNone

\* C21: each of the three extractors turns an array into the list of its
\* extracted elements, in order, and a key-value list into the dict of its
\* extracted entries, at every nesting depth.
C21_NestedExtraction ==
    pure.pc = "returned" => pure.out = ByTheRule(pure.v)

\* C21: the adapter's extractor is given an array of two scalars and
\* returns None
C21_AdapterDropsArray ==
    /\ pure.pc = "returned"
    /\ pure.fn = "_extract_attribute_value"
    /\ pure.v = ArrayValue(<<Scalar("string_value", 1), Scalar("int_value", 1)>>)
    /\ pure.out = PyNone

\* ======================================================================
\* Part IV: infrastructure/buffer/memory_buffer.py, MemoryBuffer. Spans, logs
\* and metrics are kept in three lists behind one re-entrant lock; an
\* element is named after the thread that added it.
\* ======================================================================
MemAdds == {"add_span", "add_log", "add_metric"}

MemOps == MemAdds \cup {"size", "is_full", "clear"}

\* the list an add method appends to
ListOf(op) ==
    CASE op = "add_span" -> "spans"
      [] op = "add_log" -> "logs"
      [] op = "add_metric" -> "metrics"

\* faulty variant: only the spans are counted
MemSize_spansOnly(m) == Len(m.spans)

\* size(): len(self._spans) + len(self._logs) + len(self._metrics)
MemSize(m) == Len(m.spans) + Len(m.logs) + Len(m.metrics)

\* is_full(): self.size() >= self._max_size
MemIsFull(n, m) == n >= m.max_size

MemLockFree(t) == mlock.owner \in {NoThread, t}

MemLockAcquired(t) == [owner |-> t, count |-> mlock.count + 1]

MemLockReleased(t) ==
    IF mlock.count = 1
    THEN [owner |-> NoThread, count |-> 0]
    ELSE [mlock EXCEPT !.count = @ - 1]

Lists(m) == [spans |-> m.spans, logs |-> m.logs, metrics |-> m.metrics]

\* MemoryBuffer(max_size): the constructor checks nothing
MemInit ==
    /\ \E n \in 0..MaxN : mem = MemoryBuffer(n)
    /\ mlock = [owner |-> NoThread, count |-> 0]
    /\ mthr = [t \in Threads |-> MemIdle]

\* a thread calls one of the methods
Mem_call(t, op) ==
    /\ mthr[t].pc = "idle"
    /\ mthr' = [mthr EXCEPT ![t] = [MemIdle EXCEPT
                  !.op = op,
                  !.pc = CASE op \in MemAdds -> "add_lock"
                           [] op = "is_full" -> "full_lock"
                           [] op = "size" -> "size_lock"
                           [] op = "clear" -> "clear_lock"]]
    /\ UNCHANGED <<bufVars, expVars, svcVars, pure, mem, mlock>>

\* add_span / add_log / add_metric: `with self._lock:`
Mem_add_lock(t) ==
    /\ mthr[t].pc = "add_lock"
    /\ MemLockFree(t)
    /\ mlock' = MemLockAcquired(t)
    /\ mthr' = [mthr EXCEPT ![t].pc = "full_lock", ![t].pre = Lists(mem)]
    /\ UNCHANGED <<bufVars, expVars, svcVars, pure, mem>>

\* is_full: `with self._lock:` (re-entered when called from an add method)
Mem_full_lock(t) ==
    /\ mthr[t].pc = "full_lock"
    /\ MemLockFree(t)
    /\ mlock' = MemLockAcquired(t)
    /\ mthr' = [mthr EXCEPT ![t].pc = "size_lock"]
    /\ UNCHANGED <<bufVars, expVars, svcVars, pure, mem>>

\* size: `with self._lock:` (re-entered when called from is_full)
Mem_size_lock(t) ==
    /\ mthr[t].pc = "size_lock"
    /\ MemLockFree(t)
    /\ mlock' = MemLockAcquired(t)
    /\ mthr' = [mthr EXCEPT ![t].pc = "size_body"]
    /\ UNCHANGED <<bufVars, expVars, svcVars, pure, mem>>

\* size: the sum is computed and the lock is left
Mem_size_body(t) ==
    /\ mthr[t].pc = "size_body"
    /\ mlock' = MemLockReleased(t)
    /\ mthr' = [mthr EXCEPT
                  ![t].n = MemSize(mem),
                  ![t].pre = IF mthr[t].op \in MemAdds THEN @ ELSE Lists(mem),
                  ![t].pc = IF mthr[t].op = "size" THEN "ret" ELSE "full_body"]
    /\ UNCHANGED <<bufVars, expVars, svcVars, pure, mem>>

\* is_full: the comparison is made and the lock is left
Mem_full_body(t) ==
    /\ mthr[t].pc = "full_body"
    /\ mlock' = MemLockReleased(t)
    /\ mthr' = [mthr EXCEPT
                  ![t].full = MemIsFull(mthr[t].n, mem),
                  ![t].pc = IF mthr[t].op = "is_full" THEN "ret" ELSE "add_body"]
    /\ UNCHANGED <<bufVars, expVars, svcVars, pure, mem>>

\* add_*: `if self.is_full(): return False`, else append and return True
Mem_add_body(t) ==
    /\ mthr[t].pc = "add_body"
    /\ IF mthr[t].full
       THEN /\ mthr' = [mthr EXCEPT ![t].pc = "add_exit", ![t].ret = FALSE]
            /\ mem' = mem
       ELSE /\ mthr' = [mthr EXCEPT ![t].pc = "add_exit", ![t].ret = TRUE]
            /\ mem' = [mem EXCEPT ![ListOf(mthr[t].op)] = Append(@, t)]
    /\ UNCHANGED <<bufVars, expVars, svcVars, pure, mlock>>

\* add_*: the `with` block is left
Mem_add_exit(t) ==
    /\ mthr[t].pc = "add_exit"
    /\ mlock' = MemLockReleased(t)
    /\ mthr' = [mthr EXCEPT ![t].pc = "ret"]
    /\ UNCHANGED <<bufVars, expVars, svcVars, pure, mem>>

\* clear: `with self._lock:`
Mem_clear_lock(t) ==
    /\ mthr[t].pc = "clear_lock"
    /\ MemLockFree(t)
    /\ mlock' = MemLockAcquired(t)
    /\ mthr' = [mthr EXCEPT ![t].pc = "clear_body"]
    /\ UNCHANGED <<bufVars, expVars, svcVars, pure, mem>>

\* clear: the three lists are emptied and the lock is left
Mem_clear_body(t) ==
    /\ mthr[t].pc = "clear_body"
    /\ mem' = MemoryBuffer(mem.max_size)
    /\ mlock' = MemLockReleased(t)
    /\ mthr' = [mthr EXCEPT ![t].pc = "ret"]
    /\ UNCHANGED <<bufVars, expVars, svcVars, pure>>

\* the method returns to its caller
Mem_return(t) ==
    /\ mthr[t].pc = "ret"
    /\ mthr' = [mthr EXCEPT ![t] = MemIdle]
    /\ UNCHANGED <<bufVars, expVars, svcVars, pure, mem, mlock>>

NextMem ==
    \/ \E t \in Threads, op \in MemOps : Mem_call(t, op)
    \/ \E t \in Threads : Mem_add_lock(t)
    \/ \E t \in Threads : Mem_full_lock(t)
    \/ \E t \in Threads : Mem_size_lock(t)
    \/ \E t \in Threads : Mem_size_body(t)
    \/ \E t \in Threads : Mem_full_body(t)
    \/ \E t \in Threads : Mem_add_body(t)
    \/ \E t \in Threads : Mem_add_exit(t)
    \/ \E t \in Threads : Mem_clear_lock(t)
    \/ \E t \in Threads : Mem_clear_body(t)
    \/ \E t \in Threads : Mem_return(t)

InitMem ==
    BufParked /\ ExportParked /\ MemInit /\ SvcParked /\ pure = PureParked

SpecMem == InitMem /\ [][NextMem]_vars

\* ---- claims about MemoryBuffer
Total(ls) == Len(ls.spans) + Len(ls.logs) + Len(ls.metrics)

\* the lists as an add method must leave them, given the lists it found
AfterAdd(op, t, ls, cap) ==
    IF Total(ls) >= cap THEN ls
    ELSE [ls EXCEPT ![ListOf(op)] = Append(@, t)]

PortOutcomes == {"none", "ValueError", "Exception"}

SvcInit ==
    /\ svc = [t \in Threads |-> SvcIdle]
    /\ ingested = <<>>
    /\ nCalls = 0

\* gRPC hands a request and a fresh context to a worker thread
Svc_call(t, r) ==
    /\ svc[t].pc = "idle"
    /\ nCalls < MaxExports
    /\ nCalls' = nCalls + 1
    /\ svc' = [svc EXCEPT ![t] = [SvcIdle EXCEPT !.pc = "serialize",
                                                 !.req = r,
                                                 !.call = nCalls + 1]]
    /\ UNCHANGED <<bufVars, expVars, memVars, pure, ingested>>

\* request_bytes = request.SerializeToString()
Svc_serialize(t) ==
    /\ svc[t].pc = "serialize"
    /\ svc' = [svc EXCEPT
                 ![t].pc = "ingest",
                 ![t].request_bytes = SerializeToString(Requests[svc[t].req])]
    /\ UNCHANGED <<bufVars, expVars, memVars, pure, ingested, nCalls>>

\* self.ingestion_port.ingest_traces(request_bytes)
Svc_ingest(t) ==
    /\ svc[t].pc = "ingest"
    /\ ingested' = Append(ingested, [call |-> svc[t].call,
                                     data |-> svc[t].request_bytes])
    /\ \E out \in PortOutcomes :
         svc' = [svc EXCEPT ![t].port = out,
                            ![t].exc = out,
                            ![t].pc = IF out = "none" THEN "success"
                                      ELSE "except"]
    /\ UNCHANGED <<bufVars, expVars, memVars, pure, nCalls>>

\* logger.info(...); return ExportTraceServiceResponse(partial_success=...)
Svc_success(t) ==
    /\ svc[t].pc = "success"
    /\ svc' = [svc EXCEPT ![t].pc = "done",
                          ![t].resp = "ExportTraceServiceResponse(partial_success)"]
    /\ UNCHANGED <<bufVars, expVars, memVars, pure, ingested, nCalls>>

\* except Exception as e: set_code(INTERNAL), set_details(str(e)), return
\* an empty response; an exception the clause does not catch leaves Export
Svc_except(t) ==
    /\ svc[t].pc = "except"
    /\ IF Catches(svc[t].exc)
       THEN svc' = [svc EXCEPT ![t].pc = "done",
                               ![t].code = "INTERNAL",
                               ![t].details = svc[t].exc,
                               ![t].resp = "ExportTraceServiceResponse()"]
       ELSE svc' = [svc EXCEPT ![t].pc = "done", ![t].resp = "raised"]
    /\ UNCHANGED <<bufVars, expVars, memVars, pure, ingested, nCalls>>

\* the worker thread is handed back to the pool
Svc_return(t) ==
    /\ svc[t].pc = "done"
    /\ svc' = [svc EXCEPT ![t] = SvcIdle]
    /\ UNCHANGED <<bufVars, expVars, memVars, pure, ingested, nCalls>>

NextSvc ==
    \/ \E t \in Threads, r \in 1..Len(Requests) : Svc_call(t, r)
    \/ \E t \in Threads : Svc_serialize(t)
    \/ \E t \in Threads : Svc_ingest(t)
    \/ \E t \in Threads : Svc_success(t)
    \/ \E t \in Threads : Svc_except(t)
    \/ \E t \in Threads : Svc_return(t)

InitSvc ==
    BufParked /\ ExportParked /\ MemParked /\ SvcInit /\ pure = PureParked

SpecSvc == InitSvc /\ [][NextSvc]_vars

\* ---- claims about TraceService
\* the positions in the port's log that belong to Export call number c
PortCallsOf(c) == {k \in 1..Len(ingested) : ingested[k].call = c}

\* C25: Export calls ingest_traces exactly once per request, with the
\* serialized request; the context gets an error code and details exactly
\* when that call raised; in both cases a response is returned, not raised
C25_OneIngestPerExport ==
    \A t \in Threads :
        svc[t].pc = "done" =>
            /\ Cardinality(PortCallsOf(svc[t].call)) = 1
            /\ \A k \in PortCallsOf(svc[t].call) :
                   ingested[k].data = SerializeToString(Requests[svc[t].req])
            /\ (svc[t].code # "none") <=> (svc[t].port # "none")
            /\ (svc[t].details # "none") <=> (svc[t].port # "none")
            /\ svc[t].resp \in {"ExportTraceServiceResponse(partial_success)",
                                "ExportTraceServiceResponse()"}

\* the port raised something other than ValueError on a request with spans
\* and Export returned a response with the error on the context
C25_Witness ==
    \E t \in Threads :
        /\ svc[t].pc = "done"
        /\ svc[t].port = "Exception"
        /\ svc[t].code = "INTERNAL"
        /\ svc[t].request_bytes # <<>>
        /\ svc[t].resp = "ExportTraceServiceResponse()"

\* ======================================================================
\* More claims about Export (checked under SpecExport)
\* ======================================================================
\* the positions of Export between `with self._lock:` and the end of the block
LockedPcs == {"convert", "add", "drain", "retry", "unlock"}

\* C26: conversion, add, drain and retry of one span are one critical
\* section of the adapter's lock: while a thread is in it the lock is its
\* own and no other thread is in it, the buffer the retry finds is the empty
\* one the drain left, every retried add_span returns True, and the span is
\* in the buffer when the lock is released
C26_RetryInCriticalSection ==
    \A t \in Threads :
        /\ ex[t].pc \in LockedPcs =>
               /\ rlock.owner = t
               /\ \A u \in Threads \ {t} : ex[u].pc \notin LockedPcs
        /\ ex[t].pc = "retry" => obuf.current_size = 0 /\ obuf.buffer = <<>>
        /\ \A j \in 1..Len(ex[t].trace) :
               ex[t].trace[j].ev = "retry" => ex[t].trace[j].ok
        /\ ex[t].pc = "unlock" => ex[t].span \in Range(obuf.buffer)

\* a retried add has succeeded while another Export waits for the lock
C26_Witness ==
    \E t \in Threads, u \in Threads :
        /\ t # u
        /\ ex[t].pc = "unlock"
        /\ ex[t].trace # <<>>
        /\ ex[t].trace[Len(ex[t].trace)].ev = "retry"
        /\ ex[t].trace[Len(ex[t].trace)].ok
        /\ ex[u].pc = "loop"
        /\ ex[u].i <= Len(WalkOrder(RequestOf(u)))

\* an Export that has ended because the storage port raised, during which no
\* other Export ran
StoreRaisedAlone(t) ==
    ExportDone(t) /\ ex[t].exc = "Exception" /\ ex[t].alone

\* span k of the request of thread t, as Export puts it in the buffer
BufferedSpan(t, k) ==
    Tagged(CreateTraceSpanFromOtlp(WalkOrder(RequestOf(t))[k]).span,
           ex[t].call, k)

\* the index of the span at which thread t last drained the buffer (0: never)
LastDrain(t) ==
    SetMax({0} \cup {ex[t].trace[j].i : j \in
                       {k \in 1..Len(ex[t].trace) : ex[t].trace[k].ev = "drain"}})

\* nothing of the request after span i has been converted, buffered or
\* forwarded, span i itself has not been stored, and the lock is not held
StoppedAt(t) ==
    /\ \A j \in 1..Len(ex[t].trace) :
           /\ ex[t].trace[j].i <= ex[t].i
           /\ ex[t].trace[j].ev = "store" => ex[t].trace[j].i < ex[t].i
    /\ \A k \in 1..ex[t].i :
           \E j \in 1..Len(ex[t].trace) :
               ex[t].trace[j].i = k /\ ex[t].trace[j].ev \in {"add", "retry"}
               /\ ex[t].trace[j].ok
    /\ \A u \in Threads : ex[u].pc \in (OutsideExport \ StatusPcs) \cup {"loop", "store", "except"}
           => rlock.owner # u

DomSpans == {"a", "b"}

PreFilled(n) == [k \in 1..n |-> "x"]

\* the `buffer` argument: left out (None), or a list of 0..MaxN+1 spans
BufferArgs ==
    {[given |-> FALSE, items |-> <<>>]}
        \cup {[given |-> TRUE, items |-> PreFilled(n)] : n \in 0..(MaxN + 1)}

\* __post_init__: a missing list becomes [], then the three checks
PostInit(ms, cs, arg) ==
    LET items == IF arg.given THEN arg.items ELSE <<>>
    IN  IF MaxSizeRejected(ms) THEN [exc |-> "ValueError", b |-> DomainBuffer(0)]
        ELSE IF cs < 0 THEN [exc |-> "ValueError", b |-> DomainBuffer(0)]
        ELSE IF cs # Len(items) THEN [exc |-> "ValueError", b |-> DomainBuffer(0)]
        ELSE [exc |-> "none",
              b |-> [max_size |-> ms, current_size |-> cs, buffer |-> items]]

DomInit ==
    \E ms \in 0..MaxN, cs \in (0 - 1)..(MaxN + 1), arg \in BufferArgs :
        pure = [pc |-> "new", max_size |-> ms, current_size |-> cs,
                arg |-> arg, exc |-> "none", b |-> DomainBuffer(0),
                op |-> "none", ret |-> FALSE, pre |-> DomainBuffer(0)]

\* ObservabilityBuffer(max_size, current_size, buffer)
Dom_new ==
    /\ pure.pc = "new"
    /\ LET r == PostInit(pure.max_size, pure.current_size, pure.arg)
       IN  pure' = [pure EXCEPT
                      !.pc = IF r.exc = "none" THEN "built" ELSE "raised",
                      !.exc = r.exc,
                      !.b = r.b]
    /\ UNCHANGED <<bufVars, expVars, memVars, svcVars>>

\* buffer.add_span(span)
Dom_add_span(x) ==
    /\ pure.pc = "built"
    /\ LET r == DomainAddSpan(pure.b, x)
       IN  pure' = [pure EXCEPT !.b = r.b, !.op = "add_span", !.ret = r.ok,
                                !.pre = pure.b]
    /\ UNCHANGED <<bufVars, expVars, memVars, svcVars>>

\* buffer.clear()
Dom_clear ==
    /\ pure.pc = "built"
    /\ pure' = [pure EXCEPT !.b = DomainClear(pure.b), !.op = "clear",
                            !.ret = FALSE, !.pre = pure.b]
    /\ UNCHANGED <<bufVars, expVars, memVars, svcVars>>

NextDom == Dom_new \/ (\E x \in DomSpans : Dom_add_span(x)) \/ Dom_clear

InitDom == BufParked /\ ExportParked /\ MemParked /\ SvcParked /\ DomInit

SpecDom == InitDom /\ [][NextDom]_vars

\* ---- claims about the dataclass
\* C30: after construction and after any add_span and clear calls,
\* current_size = len(buffer) and 0 <= current_size <= max_size; add_span on
\* a buffer with current_size >= max_size returns False and changes neither
\* field; clear leaves current_size 0 and an empty list
C30_DomainBufferInvariant ==
    pure.pc = "built" =>
        /\ pure.b.current_size = Len(pure.b.buffer)
        /\ 0 <= pure.b.current_size
        /\ pure.b.current_size <= pure.b.max_size
        /\ (pure.op = "add_span" /\ pure.pre.current_size >= pure.pre.max_size)
               => /\ pure.ret = FALSE
                  /\ pure.b.current_size = pure.pre.current_size
                  /\ pure.b.buffer = pure.pre.buffer
        /\ pure.op = "clear"
               => pure.b.current_size = 0 /\ pure.b.buffer = <<>>

\* a buffer has been constructed holding more spans than max_size
C30_OverfullConstructed ==
    /\ pure.pc = "built"
    /\ pure.op = "none"
    /\ pure.b.current_size = Len(pure.b.buffer)
    /\ pure.b.current_size > pure.b.max_size

\* ======================================================================
\* More claims about the buffers (checked under Spec)
\* ======================================================================
\* how many times span id is in the deque d
Occurrences(d, id) == Cardinality({k \in 1..Len(d) : d[k] = id})

\* the spans appended so far
Added == 1..nAdded

\* a get_spans call that holds spans it has taken
Consuming(t) == thr[t].op = "get_spans" /\ thr[t].pc \in {"pop", "ret"}

\* C28: ObservabilityBufferWithConsume, producers and consumers together:
\* what a get_spans returns was added before and is returned once, without
\* repetition; every added span either is in the deque, once, or has left it
\* exactly once: popped by one get_spans, evicted by an add_span on the full
\* deque, or removed by clear; no other span is in the deque
C28_EverySpanInOneState ==
    variant = "ObservabilityBufferWithConsume" =>
        /\ \A id \in 1..MaxAdds :
               Occurrences(buf, id) + left.times[id]
                   = IF id \in Added THEN 1 ELSE 0
        /\ left.popped + left.evicted + left.cleared + Len(buf) = nAdded
        /\ \A t \in Threads :
               Consuming(t) =>
                   /\ Len(thr[t].retL) <= left.popped
                   /\ \A j \in 1..Len(thr[t].retL) :
                          /\ thr[t].retL[j] \in Added
                          /\ thr[t].retL[j] \notin Range(buf)
                          /\ left.times[thr[t].retL[j]] = 1
                          /\ \A k \in 1..Len(thr[t].retL) :
                                 k # j => thr[t].retL[k] # thr[t].retL[j]

\* spans have been popped, evicted and cleared, one is in the deque, and a
\* get_spans is about to return the span it has popped
C28_Witness ==
    /\ variant = "ObservabilityBufferWithConsume"
    /\ left.evicted >= 1
    /\ left.cleared >= 1
    /\ buf # <<>>
    /\ \E t \in Threads :
           /\ AtRet(t, "get_spans")
           /\ Len(thr[t].retL) = 1
           /\ left.popped = 1

\* ======================================================================
\* Claims about Export under a fair scheduler (checked under SpecExportFair)
\* ======================================================================
\* the positions at which a thread holds the adapter's lock
HoldingPcs == LockedPcs \cup {"status", "status_full", "status_empty"}

\* the lock is held exactly by a thread between an acquire and its release:
\* every path out of a locked section, the raising conversion too, frees it
LockHeldOnlyInside ==
    /\ \A t \in Threads : ex[t].pc \in HoldingPcs <=> rlock.owner = t
    /\ rlock.owner = NoThread <=> rlock.count = 0

\* a thread waits for the lock only while its owner can take a step
NoDeadlock ==
    \A t \in Threads :
        (ex[t].pc = "loop" /\ ~RLockFree(t)) =>
            \E u \in Threads \ {t} : rlock.owner = u /\ ENABLED Running(u)

\* C27: with concurrent Export and get_buffer_status calls the lock is freed
\* on every path, no state is a deadlock, and under fair scheduling every
\* Export call that has started returns
C27_ExportReturns ==
    /\ [](LockHeldOnlyInside /\ NoDeadlock)
    /\ \A t \in Threads :
           (ex[t].pc \notin OutsideExport) ~> (ex[t].pc = "done")

\* an Export waits for the lock while the conversion in the other Export is
\* about to raise inside the locked section
C27_Witness ==
    \E t \in Threads, u \in Threads :
        /\ t # u
        /\ ex[t].pc = "loop"
        /\ ex[t].i <= Len(WalkOrder(RequestOf(t)))
        /\ ex[u].pc = "convert"
        /\ ~CreateTraceSpanFromOtlp(WalkOrder(RequestOf(u))[ex[u].i]).ok

====
